---------------------------- MODULE Spec2Model ----------------------------
(***************************************************************************)
(* A model of gomill's stateful GTP engine (gomill/gtp_states.py,          *)
(* Gtp_state) and of its nonblocking subprocess channel                    *)
(* (gomill/nonblocking_gtp_controller.py, Subprocess_gtp_channel).         *)
(*                                                                         *)
(* Python's None is modelled as the empty set and a present value v as     *)
(* {v}, so that optional values of any type compare.                       *)
(***************************************************************************)
EXTENDS Integers, Sequences, FiniteSets, TLC

VARIABLES
    \* Gtp_state fields
    board_size, board, handicap, simple_ko_point, simple_ko_player,
    history_base, move_history, komi, time_settings, time_status,
    \* history variable: TRUE while every entry of move_history was appended
    \* by a play or genmove command, FALSE once loadsgf has installed moves
    live_history,
    \* history variable: TRUE until the engine is given its first command
    no_command_yet

gtp_vars == <<board_size, board, handicap, simple_ko_point, simple_ko_player,
              history_base, move_history, komi, time_settings, time_status,
              live_history, no_command_yet>>

VARIABLES
    \* Subprocess_gtp_channel fields
    response_data, seen_eof, error_data, pipes_to_poll,
    \* the subprocess's ends of the pipes: the bytes written and not yet
    \* read, and whether the subprocess has closed its end
    response_pipe, response_closed, error_pipe, error_closed,
    \* where the caller is: "idle", or "line" inside get_response_line
    pc,
    \* history variables: every byte the subprocess wrote to its standard
    \* output, and what each get_response_line call returned, with seen_eof
    \* as it was at the return
    response_written, returned,
    \* Subprocess_gtp_channel fields set by close(), and its local `errors`
    exit_status, resource_usage, errors,
    \* history variables: every byte the subprocess wrote to its standard
    \* error; what each retrieve_diagnostics call returned; which entries of
    \* `returned` are get_response_byte's, with the buffer as the call found
    \* it; the command lines written; the steps close() has attempted; and
    \* every exception that reached the caller, with the failure behind it
    diag_written, diag_returned, byte_returns, commands_sent,
    close_attempted, raised

\* what the calls other than get_response_line write
call_vars == <<exit_status, resource_usage, errors, diag_returned,
               byte_returns, commands_sent, close_attempted, raised>>

chan_vars == <<response_data, seen_eof, error_data, pipes_to_poll,
               response_pipe, response_closed, error_pipe, error_closed,
               pc, response_written, returned, diag_written, call_vars>>

VARIABLES
    \* Id_allocator fields
    next_new, outstanding, to_reissue,
    \* history variables: the ids issued so far, the ids fixed so far, the
    \* ids issue() has returned since the last rollback (all of them before
    \* the first), in order, and whether rollback has been called
    issued_ids, fixed_ids, since_rollback, rolled_back

alloc_vars == <<next_new, outstanding, to_reissue, issued_ids, fixed_ids,
                since_rollback, rolled_back>>

VARIABLES
    \* the extra-property argument of the last savesgf command and the game
    \* record that command wrote (None where it wrote none)
    saved_game, savesgf_arg

sgf_vars == <<saved_game, savesgf_arg>>

VARIABLES
    \* Group_scheduler fields: allocators maps each group code to its
    \* Id_allocator, limits maps it to its limit
    allocators, limits,
    \* history variables, per group code: the game numbers issued so far,
    \* the ones fixed, and the ones issued since the last rollback and not
    \* fixed
    group_issued, group_fixed, group_held

sched_vars == <<allocators, limits, group_issued, group_fixed, group_held>>

VARIABLES
    \* Tournament fields: matchups is the list of Matchups (empty until the
    \* control file is read), results the list of pairs (matchup_id,
    \* Game_result), outstanding_games the map game id -> (matchup_id,
    \* b_player_code, w_player_code)
    matchups, results, game_id_allocator, outstanding_games,
    \* history variable: what the last get_game call returned
    last_job

tourn_vars == <<matchups, results, game_id_allocator, outstanding_games,
                last_job>>

\* what the actions of one component leave alone
outside_gtp == <<chan_vars, alloc_vars, sgf_vars, sched_vars, tourn_vars>>
outside_chan == <<gtp_vars, alloc_vars, sgf_vars, sched_vars, tourn_vars>>
outside_alloc == <<gtp_vars, chan_vars, sgf_vars, sched_vars, tourn_vars>>
outside_sched == <<gtp_vars, chan_vars, alloc_vars, sgf_vars, tourn_vars>>
outside_tourn == <<gtp_vars, chan_vars, alloc_vars, sgf_vars, sched_vars>>

vars == <<gtp_vars, chan_vars, alloc_vars, sgf_vars, sched_vars, tourn_vars>>

-----------------------------------------------------------------------------
(* Bounds of the model *)

\* longest move_history that play/genmove still extend
MaxHist == 3
\* largest move_number argument given to loadsgf
MaxMoveNumber == 3
\* largest number of stones asked of place_free_handicap
MaxHandicap == 3
\* the controller sends handicap commands only while move_history is no
\* longer than this
MaxHandicapHist == 0
\* bytes the subprocess writes to its standard output
MaxResponse == 4
\* bytes the subprocess writes to its standard error
MaxDiag == 2
\* get_response_line calls the caller makes
MaxCalls == 3
\* calls that end with an exception
MaxFailures == 2
\* ids an Id_allocator hands out
MaxIds == 4
\* longest property value given to savesgf, in characters
MaxToken == 4
\* most new game numbers a group's allocator hands out
MaxGames == 2
\* most get_game calls made on a tournament
MaxJobs == 3

-----------------------------------------------------------------------------
(* Optional values *)

None == {}
Some(v) == {v}
The(o) == CHOOSE v \in o : TRUE

Colours == {"b", "w"}

opponent_of(colour) == IF colour = "b" THEN "w" ELSE "b"

-----------------------------------------------------------------------------
(* boards.Board: the capability contract of the specification, section 3.  *)
(* A board is [side, pts], pts mapping each point <<row, col>> to "e"      *)
(* (empty), "b" or "w".                                                    *)

Points(n) == (0 .. n - 1) \X (0 .. n - 1)

Board(n) == [side |-> n, pts |-> [p \in Points(n) |-> "e"]]

Neighbours(n, p) ==
    {q \in Points(n) :
        \/ (q[1] = p[1] /\ (q[2] = p[2] + 1 \/ q[2] = p[2] - 1))
        \/ (q[2] = p[2] /\ (q[1] = p[1] + 1 \/ q[1] = p[1] - 1))}

RECURSIVE Grow(_, _, _, _)
Grow(n, pts, colour, G) ==
    LET more == {q \in Points(n) \ G :
                    pts[q] = colour /\ \E g \in G : q \in Neighbours(n, g)}
    IN  IF more = {} THEN G ELSE Grow(n, pts, colour, G \cup more)

\* the connected same-coloured group of the stone at p
GroupOf(n, pts, p) == Grow(n, pts, pts[p], {p})

HasLiberty(n, pts, G) ==
    \E g \in G : \E q \in Neighbours(n, g) : pts[q] = "e"

\* the groups of either colour left with no liberty
SurroundedGroups(n, pts) ==
    {G \in {GroupOf(n, pts, p) : p \in {q \in Points(n) : pts[q] # "e"}} :
        ~HasLiberty(n, pts, G)}

GroupColour(pts, G) == pts[CHOOSE g \in G : TRUE]

\* Board.play(row, col, colour): [err, board, ko].  err is "ok", "ValueError"
\* (the point is occupied) or "IndexError" (the point is off this board).
\* Captures are applied, self-capture is permitted; ko is the point forbidden
\* by the simple-ko rule, or None.
BoardPlay(b, p, colour) ==
    IF p \notin Points(b.side)
    THEN [err |-> "IndexError", board |-> b, ko |-> None]
    ELSE IF b.pts[p] # "e"
    THEN [err |-> "ValueError", board |-> b, ko |-> None]
    ELSE
      LET placed == [b.pts EXCEPT ![p] = colour]
          surrounded == SurroundedGroups(b.side, placed)
          theirs == {G \in surrounded :
                        GroupColour(placed, G) = opponent_of(colour)}
          mine == {G \in surrounded : GroupColour(placed, G) = colour}
          to_capture == IF Cardinality(surrounded) = 1 THEN surrounded
                        ELSE theirs
          dead == UNION to_capture
          is_ko == /\ Cardinality(surrounded) > 1
                   /\ Cardinality(theirs) = 1
                   /\ Cardinality(The(theirs)) = 1
                   /\ \E G \in mine : Cardinality(G) = 1
      IN  [err |-> "ok",
           board |-> [side |-> b.side,
                      pts |-> [q \in Points(b.side) |->
                                  IF q \in dead THEN "e" ELSE placed[q]]],
           ko |-> IF is_ko THEN Some(The(The(theirs))) ELSE None]

BoardIsEmpty(b) == \A p \in Points(b.side) : b.pts[p] = "e"


-----------------------------------------------------------------------------
(* Gtp_state *)

\* sizes the engine is constructed with (the acceptable_sizes argument)
AcceptableSizes == {2, 3, 9}

\* the engine's fields as one record, read by the handlers below
Cur ==
    [board_size |-> board_size, board |-> board, handicap |-> handicap,
     simple_ko_point |-> simple_ko_point,
     simple_ko_player |-> simple_ko_player,
     history_base |-> history_base, move_history |-> move_history,
     komi |-> komi, time_settings |-> time_settings,
     time_status |-> time_status]

History_move(colour, coords, comments, cookie) ==
    [colour |-> colour, coords |-> coords, comments |-> comments,
     cookie |-> cookie]

\* a handler's outcome: the engine afterwards, the error raised ("ok" for
\* none) and the value returned
Outcome(st, err, res) == [st |-> st, err |-> err, res |-> res]

NoResult == [kind |-> "none", vertices |-> <<>>]
Word(w) == [kind |-> w, vertices |-> <<>>]
Vertices(vs) == [kind |-> "vertices", vertices |-> vs]

\* reset clearing the board and the history but not the handicap
reset_keeping_handicap(s) ==
    [s EXCEPT !.board = Board(s.board_size),
              !.simple_ko_point = None,
              !.simple_ko_player = None,
              !.history_base = Board(s.board_size),
              !.move_history = <<>>]

reset(s) ==
    [s EXCEPT !.board = Board(s.board_size),
              !.handicap = None,
              !.simple_ko_point = None,
              !.simple_ko_player = None,
              !.history_base = Board(s.board_size),
              !.move_history = <<>>]

set_history_base(s, b) ==
    [s EXCEPT !.history_base = b, !.move_history = <<>>]

\* The loop of reset_to_moves from move i on.  s.board and
\* s.simple_ko_point are the attributes the loop writes as it goes;
\* ko_point and ko_player are its local variables.
RECURSIVE ReplayLoop(_, _, _, _, _)
ReplayLoop(s, moves, i, ko_point, ko_player) ==
    IF i > Len(moves)
    THEN [st |-> [s EXCEPT !.simple_ko_point = ko_point,
                           !.simple_ko_player = ko_player,
                           !.move_history = moves],
          err |-> "ok"]
    ELSE IF moves[i].coords = None
    THEN ReplayLoop([s EXCEPT !.simple_ko_point = None], moves, i + 1,
                    ko_point, ko_player)
    ELSE LET r == BoardPlay(s.board, The(moves[i].coords), moves[i].colour)
         IN  IF r.err # "ok"
             THEN [st |-> s, err |-> r.err]
             ELSE ReplayLoop([s EXCEPT !.board = r.board], moves, i + 1,
                             r.ko, Some(opponent_of(moves[i].colour)))

\* reset_to_moves making its own record of each move, colour and point only
reset_to_moves_dropping_cookies(s, moves) ==
    ReplayLoop([s EXCEPT !.board = s.history_base],
               [i \in 1 .. Len(moves) |->
                   History_move(moves[i].colour, moves[i].coords, None,
                                None)],
               1, None, None)

reset_to_moves(s, moves) ==
    ReplayLoop([s EXCEPT !.board = s.history_base], moves, 1, None, None)

-----------------------------------------------------------------------------
(* Floating-point arguments: a finite value is a count of halves, so that  *)
(* 7.5 is Fin(15); the other values are the infinities and NaN.            *)

Fin(halves) == [kind |-> "fin", halves |-> halves]
PosInf == [kind |-> "inf", halves |-> 1]
NegInf == [kind |-> "inf", halves |-> -1]
NaN == [kind |-> "nan", halves |-> 0]

max_komi == 625

\* set_komi rounding towards zero, as int(f) does
set_komi_truncating(s, f) ==
    IF f.kind = "nan" THEN [st |-> s, err |-> "ValueError"]
    ELSE IF f.kind = "inf"
    THEN [st |-> [s EXCEPT !.komi = IF f.halves < 0 THEN -max_komi
                                    ELSE max_komi],
          err |-> "ok"]
    ELSE LET k == IF f.halves < 0 THEN -((-f.halves) \div 2)
                  ELSE f.halves \div 2
         IN  [st |-> [s EXCEPT !.komi = IF k < -max_komi THEN -max_komi
                                         ELSE IF k > max_komi THEN max_komi
                                         ELSE k],
              err |-> "ok"]

\* set_komi: int(math.floor(f)) raises OverflowError for an infinity, which
\* is caught, and ValueError for NaN, which is not.
set_komi(s, f) ==
    IF f.kind = "nan" THEN [st |-> s, err |-> "ValueError"]
    ELSE IF f.kind = "inf"
    THEN [st |-> [s EXCEPT !.komi = IF f.halves < 0 THEN -max_komi
                                    ELSE max_komi],
          err |-> "ok"]
    ELSE LET k == f.halves \div 2
         IN  [st |-> [s EXCEPT !.komi = IF k < -max_komi THEN -max_komi
                                         ELSE IF k > max_komi THEN max_komi
                                         ELSE k],
              err |-> "ok"]

handle_boardsize(s, size) ==
    IF size \notin AcceptableSizes
    THEN Outcome(s, "unacceptable size", NoResult)
    ELSE Outcome(reset([s EXCEPT !.board_size = size]), "ok", NoResult)

handle_clear_board(s) == Outcome(reset(s), "ok", NoResult)

handle_komi(s, f) == Outcome(set_komi(s, f).st, set_komi(s, f).err, NoResult)

-----------------------------------------------------------------------------
(* handicap_layout: the standard handicap points (not part of this core)   *)

max_free_handicap_for_board_size(size) == size * size - 1

max_fixed_handicap_for_board_size(size) ==
    IF size <= 7 THEN 0
    ELSE IF size % 2 = 0 THEN 4 ELSE 9

\* the three handicap lines of a board: near edge, middle, far edge
HandicapLine(size, k) ==
    LET edge == IF size < 13 THEN 2 ELSE 3
    IN  CASE k = 0 -> edge
          [] k = 1 -> (size - 1) \div 2
          [] OTHER -> size - 1 - edge

HandicapPattern ==
    <<  <<0,0>>, <<2,2>>, <<2,0>>, <<0,2>>, <<1,0>>, <<1,2>>, <<0,1>>,
        <<2,1>>, <<1,1>> >>

\* handicap_points(n, size): [err, points]
handicap_points(n, size) ==
    IF n < 2 \/ n > max_fixed_handicap_for_board_size(size)
    THEN [err |-> "ValueError", points |-> <<>>]
    ELSE LET pat == IF n \in {5, 7}
                    THEN SubSeq(HandicapPattern, 1, n - 1) \o << <<1,1>> >>
                    ELSE SubSeq(HandicapPattern, 1, n)
         IN  [err |-> "ok",
              points |-> [i \in 1 .. n |->
                             <<HandicapLine(size, pat[i][1]),
                               HandicapLine(size, pat[i][2])>>]]

\* the stones of `points` from the i-th on, played as black on board b
RECURSIVE PlayBlack(_, _, _)
PlayBlack(b, points, i) ==
    IF i > Len(points) THEN [err |-> "ok", board |-> b, at |-> i]
    ELSE LET r == BoardPlay(b, points[i], "b")
         IN  IF r.err # "ok" THEN [err |-> r.err, board |-> b, at |-> i]
             ELSE PlayBlack(r.board, points, i + 1)

handle_fixed_handicap(s, number_of_stones) ==
    IF ~BoardIsEmpty(s.board)
    THEN Outcome(s, "board not empty", NoResult)
    ELSE LET h == handicap_points(number_of_stones, s.board_size)
         IN  IF h.err # "ok"
             THEN Outcome(s, "invalid number of stones", NoResult)
             ELSE LET r == PlayBlack(s.board, h.points, 1)
                      t == [s EXCEPT !.board = r.board]
                  IN  IF r.err # "ok" THEN Outcome(t, r.err, NoResult)
                      ELSE Outcome(
                             set_history_base(
                               [t EXCEPT !.simple_ko_point = None,
                                         !.handicap = Some(number_of_stones)],
                               t.board),
                             "ok", Vertices(h.points))

\* The loop of handle_set_free_handicap: each vertex is interpreted against
\* board_size and then played on the board, one after the other.
RECURSIVE SetFreeLoop(_, _, _, _)
SetFreeLoop(b, size, args, i) ==
    IF i > Len(args) THEN [err |-> "ok", board |-> b]
    ELSE IF args[i] \notin Points(size)
    THEN [err |-> "invalid vertex", board |-> b]
    ELSE LET r == BoardPlay(b, args[i], "b")
         IN  IF r.err = "ValueError"
             THEN [err |-> "engine error: occupied", board |-> b]
             ELSE IF r.err # "ok" THEN [err |-> r.err, board |-> b]
             ELSE SetFreeLoop(r.board, size, args, i + 1)

handle_set_free_handicap(s, args) ==
    IF Len(args) < 2 THEN Outcome(s, "bad arguments", NoResult)
    ELSE LET r == SetFreeLoop(s.board, s.board_size, args, 1)
             t == [s EXCEPT !.board = r.board]
         IN  IF r.err # "ok" THEN Outcome(t, r.err, NoResult)
             ELSE Outcome(
                    [set_history_base(t, t.board)
                        EXCEPT !.handicap = Some(Len(args)),
                               !.simple_ko_point = None],
                    "ok", NoResult)

\* Move_generator_result
Generated(resign, pass_move, move, claim, comments, cookie) ==
    [resign |-> resign, pass_move |-> pass_move, move |-> move,
     claim |-> claim, comments |-> comments, cookie |-> cookie]

\* the loop of handle_place_free_handicap passing over an occupied point
\* without an error
RECURSIVE PlaceFreeLoop_ignoring_occupied(_, _, _, _, _, _, _)
PlaceFreeLoop_ignoring_occupied(b, gen, i, number_of_stones, fake_komi, max_fake_komi, moves) ==
    IF i > number_of_stones
    THEN [err |-> "ok", board |-> b, moves |-> moves, komis |-> <<>>]
    ELSE IF gen[i].pass_move \/ gen[i].resign
    THEN PlaceFreeLoop_ignoring_occupied(b, gen, i + 1, number_of_stones,
                                         fake_komi, max_fake_komi, moves)
    ELSE LET r == BoardPlay(b, The(gen[i].move), "b")
         IN  PlaceFreeLoop_ignoring_occupied(
                 r.board, gen, i + 1, number_of_stones, fake_komi,
                 max_fake_komi, Append(moves, The(gen[i].move)))

\* the outcome r of the later iterations, with the komi of the Game_state
\* of this iteration's generator call put in front
GeneratorCalled(fake_komi, r) == [r EXCEPT !.komis = <<fake_komi>> \o @]

\* the loop of handle_place_free_handicap raising the komi after a pass too
RECURSIVE PlaceFreeLoop_raising_komi_on_pass(_, _, _, _, _, _, _)
PlaceFreeLoop_raising_komi_on_pass(b, gen, i, number_of_stones, fake_komi, max_fake_komi, moves) ==
    IF i > number_of_stones
    THEN [err |-> "ok", board |-> b, moves |-> moves, komis |-> <<>>]
    ELSE LET k == IF fake_komi + 5 < max_fake_komi THEN fake_komi + 5
                  ELSE max_fake_komi
         IN  IF gen[i].pass_move
             THEN GeneratorCalled(fake_komi,
                      PlaceFreeLoop_raising_komi_on_pass(
                          b, gen, i + 1, number_of_stones, k, max_fake_komi,
                          moves))
             ELSE IF gen[i].resign
             THEN GeneratorCalled(fake_komi,
                      PlaceFreeLoop_raising_komi_on_pass(
                          b, gen, i + 1, number_of_stones, 0, max_fake_komi,
                          moves))
             ELSE LET r == BoardPlay(b, The(gen[i].move), "b")
                  IN  IF r.err # "ok"
                      THEN [err |-> r.err, board |-> b, moves |-> moves,
                            komis |-> <<fake_komi>>]
                      ELSE GeneratorCalled(fake_komi,
                               PlaceFreeLoop_raising_komi_on_pass(
                                   r.board, gen, i + 1, number_of_stones, k,
                                   max_fake_komi,
                                   Append(moves, The(gen[i].move))))

\* The loop of handle_place_free_handicap from iteration i on; gen[i] is
\* what the move generator answers in iteration i, and komis lists
\* game_state.komi of the generator calls made, in order.
RECURSIVE PlaceFreeLoop(_, _, _, _, _, _, _)
PlaceFreeLoop(b, gen, i, number_of_stones, fake_komi, max_fake_komi, moves) ==
    IF i > number_of_stones
    THEN [err |-> "ok", board |-> b, moves |-> moves, komis |-> <<>>]
    ELSE IF gen[i].pass_move
    THEN GeneratorCalled(fake_komi,
             PlaceFreeLoop(b, gen, i + 1, number_of_stones, fake_komi,
                           max_fake_komi, moves))
    ELSE IF gen[i].resign
    THEN GeneratorCalled(fake_komi,
             PlaceFreeLoop(b, gen, i + 1, number_of_stones, 0,
                           max_fake_komi, moves))
    ELSE LET r == BoardPlay(b, The(gen[i].move), "b")
             k == IF fake_komi + 5 < max_fake_komi THEN fake_komi + 5
                  ELSE max_fake_komi
         IN  IF r.err = "ValueError"
             THEN [err |-> "engine error: tried to play", board |-> b,
                   moves |-> moves, komis |-> <<fake_komi>>]
             ELSE IF r.err # "ok"
             THEN [err |-> r.err, board |-> b, moves |-> moves,
                   komis |-> <<fake_komi>>]
             ELSE GeneratorCalled(fake_komi,
                      PlaceFreeLoop(r.board, gen, i + 1, number_of_stones, k,
                                    max_fake_komi,
                                    Append(moves, The(gen[i].move))))

handle_place_free_handicap(s, n, gen) ==
    LET max_points == max_free_handicap_for_board_size(s.board_size)
        number_of_stones == IF n = max_points THEN max_points - 1 ELSE n
    IN  IF ~(2 <= n /\ n <= max_points)
        THEN Outcome(s, "invalid number of stones", NoResult)
        ELSE IF ~BoardIsEmpty(s.board)
        THEN Outcome(s, "board not empty", NoResult)
        ELSE LET r == PlaceFreeLoop(s.board, gen, 1, number_of_stones, 0,
                                    s.board_size * s.board_size - 2, <<>>)
                 t == [s EXCEPT !.board = r.board]
             IN  IF r.err # "ok" THEN Outcome(t, r.err, NoResult)
                 ELSE Outcome(
                        set_history_base(
                          [t EXCEPT !.simple_ko_point = None,
                                    !.handicap = Some(number_of_stones)],
                          t.board),
                        "ok", Vertices(r.moves))

-----------------------------------------------------------------------------
(* play, genmove, undo *)

\* handle_play clearing the ko ban before it tries the move
handle_play_clearing_ko_first(s, colour, vertex) ==
    IF vertex # None /\ The(vertex) \notin Points(s.board_size)
    THEN Outcome(s, "invalid vertex", NoResult)
    ELSE IF vertex = None
    THEN Outcome([s EXCEPT !.simple_ko_point = None,
                           !.move_history =
                               Append(@, History_move(colour, None, None,
                                                      None))],
                 "ok", NoResult)
    ELSE LET r == BoardPlay(s.board, The(vertex), colour)
         IN  IF r.err # "ok"
             THEN Outcome([s EXCEPT !.simple_ko_point = None],
                          "illegal move", NoResult)
             ELSE Outcome(
                    [s EXCEPT !.board = r.board,
                              !.simple_ko_point = r.ko,
                              !.simple_ko_player = Some(opponent_of(colour)),
                              !.move_history =
                                  Append(@, History_move(colour, vertex,
                                                         None, None))],
                    "ok", NoResult)

\* handle_play leaving the ko ban in force over a pass
handle_play_keeping_ko_on_pass(s, colour, vertex) ==
    IF vertex # None /\ The(vertex) \notin Points(s.board_size)
    THEN Outcome(s, "invalid vertex", NoResult)
    ELSE IF vertex = None
    THEN Outcome([s EXCEPT !.move_history =
                               Append(@, History_move(colour, None, None,
                                                      None))],
                 "ok", NoResult)
    ELSE LET r == BoardPlay(s.board, The(vertex), colour)
         IN  IF r.err # "ok" THEN Outcome(s, "illegal move", NoResult)
             ELSE Outcome(
                    [s EXCEPT !.board = r.board,
                              !.simple_ko_point = r.ko,
                              !.simple_ko_player = Some(opponent_of(colour)),
                              !.move_history =
                                  Append(@, History_move(colour, vertex,
                                                         None, None))],
                    "ok", NoResult)

\* vertex is None for "pass"; interpret_vertex rejects a point that is off
\* a board of side board_size
handle_play(s, colour, vertex) ==
    IF vertex # None /\ The(vertex) \notin Points(s.board_size)
    THEN Outcome(s, "invalid vertex", NoResult)
    ELSE IF vertex = None
    THEN Outcome([s EXCEPT !.simple_ko_point = None,
                           !.move_history =
                               Append(@, History_move(colour, None, None,
                                                      None))],
                 "ok", NoResult)
    ELSE LET r == BoardPlay(s.board, The(vertex), colour)
         IN  IF r.err = "ValueError"
             THEN Outcome(s, "illegal move", NoResult)
             ELSE IF r.err # "ok" THEN Outcome(s, r.err, NoResult)
             ELSE Outcome(
                    [s EXCEPT !.board = r.board,
                              !.simple_ko_point = r.ko,
                              !.simple_ko_player = Some(opponent_of(colour)),
                              !.move_history =
                                  Append(@, History_move(colour, vertex,
                                                         None, None))],
                    "ok", NoResult)

\* a Game_state that names the ko point to either colour
Game_state_for_any_colour(s, colour, for_regression) ==
    [size |-> s.board_size, board |-> s.board,
     history_base |-> s.history_base, move_history |-> s.move_history,
     komi |-> s.komi, for_regression |-> for_regression,
     ko_point |-> s.simple_ko_point,
     handicap |-> s.handicap, time_settings |-> s.time_settings,
     time_remaining |-> s.time_status[colour][1],
     canadian_stones_remaining |-> s.time_status[colour][2]]

\* the Game_state that _handle_genmove gives the move generator
Game_state(s, colour, for_regression) ==
    [size |-> s.board_size, board |-> s.board,
     history_base |-> s.history_base, move_history |-> s.move_history,
     komi |-> s.komi, for_regression |-> for_regression,
     ko_point |-> IF s.simple_ko_point # None
                     /\ s.simple_ko_player = Some(colour)
                  THEN s.simple_ko_point ELSE None,
     handicap |-> s.handicap, time_settings |-> s.time_settings,
     time_remaining |-> s.time_status[colour][1],
     canadian_stones_remaining |-> s.time_status[colour][2]]

\* generated is what the move generator answers to Game_state(...)
handle_genmove_common(s, colour, generated, for_regression, allow_claim) ==
    IF allow_claim /\ generated.claim THEN Outcome(s, "ok", Word("claim"))
    ELSE IF generated.resign THEN Outcome(s, "ok", Word("resign"))
    ELSE IF generated.pass_move
    THEN Outcome(
           IF for_regression THEN s
           ELSE [s EXCEPT !.move_history =
                    Append(@, History_move(colour, None, generated.comments,
                                           generated.cookie))],
           "ok", Word("pass"))
    ELSE IF for_regression
    THEN Outcome(s, "ok", Vertices(<<The(generated.move)>>))
    ELSE LET r == BoardPlay(s.board, The(generated.move), colour)
         IN  IF r.err = "ValueError"
             THEN Outcome(s, "engine error: tried to play", NoResult)
             ELSE IF r.err # "ok" THEN Outcome(s, r.err, NoResult)
             ELSE Outcome(
                    [s EXCEPT !.board = r.board,
                              !.simple_ko_point = r.ko,
                              !.simple_ko_player = Some(opponent_of(colour)),
                              !.move_history =
                                  Append(@, History_move(colour,
                                                         generated.move,
                                                         generated.comments,
                                                         generated.cookie))],
                    "ok", Vertices(<<The(generated.move)>>))

handle_genmove(s, colour, generated) ==
    handle_genmove_common(s, colour, generated, FALSE, FALSE)

\* genmove_claim making the move before it reports the claim
handle_genmove_claim_after_move(s, colour, generated) ==
    LET o == handle_genmove_common(s, colour, generated, FALSE, FALSE)
    IN  IF generated.claim /\ o.err = "ok"
        THEN Outcome(o.st, "ok", Word("claim"))
        ELSE o

\* reg_genmove making the move as genmove does
handle_reg_genmove_playing(s, colour, generated) ==
    handle_genmove_common(s, colour, generated, FALSE, FALSE)

handle_genmove_claim(s, colour, generated) ==
    handle_genmove_common(s, colour, generated, FALSE, TRUE)

handle_reg_genmove(s, colour, generated) ==
    handle_genmove_common(s, colour, generated, TRUE, FALSE)

\* what the move generator is given by each of the three commands
genmove_game_state(s, colour) == Game_state(s, colour, FALSE)

genmove_claim_game_state(s, colour) == Game_state(s, colour, FALSE)

reg_genmove_game_state(s, colour) == Game_state(s, colour, TRUE)

handle_undo(s) ==
    IF s.move_history = <<>> THEN Outcome(s, "cannot undo", NoResult)
    ELSE LET r == reset_to_moves(
                    s, SubSeq(s.move_history, 1, Len(s.move_history) - 1))
         IN  IF r.err = "ValueError"
             THEN Outcome(r.st, "corrupt history", NoResult)
             ELSE Outcome(r.st, r.err, NoResult)

\* time_left recording the time for both colours
handle_time_left_for_both(s, colour, time_remaining, stones_remaining) ==
    Outcome([s EXCEPT !.time_status =
                [c \in Colours |->
                    <<Some(time_remaining),
                      IF stones_remaining = 0 THEN None
                      ELSE Some(stones_remaining)>>]],
            "ok", NoResult)

handle_time_left(s, colour, time_remaining, stones_remaining) ==
    Outcome([s EXCEPT !.time_status[colour] =
                <<Some(time_remaining),
                  IF stones_remaining = 0 THEN None
                  ELSE Some(stones_remaining)>>],
            "ok", NoResult)

handle_time_settings(s, main_time, canadian_time, canadian_stones) ==
    Outcome([s EXCEPT !.time_settings =
                Some(<<main_time, canadian_time, canadian_stones>>)],
            "ok", NoResult)

-----------------------------------------------------------------------------
(* loadsgf.  A file is what the SGF reader makes of it:                    *)
(*   readable  -- the file can be opened, read and parsed                  *)
(*   size      -- get_size()                                               *)
(*   komi      -- get_komi(), or None where it raises ValueError           *)
(*   handicap  -- get_handicap(), None for no handicap;                    *)
(*                handicap_ok is FALSE where it raises ValueError          *)
(*   setup, moves -- get_setup_and_moves(); setup is None where it raises  *)

Sgf_file(readable, size, komi_f, handicap_ok, hcap, setup, moves) ==
    [readable |-> readable, size |-> size, komi |-> komi_f,
     handicap_ok |-> handicap_ok, handicap |-> hcap, setup |-> setup,
     moves |-> moves]

\* python's seq[:n] for n >= 0
Take(seq, n) == SubSeq(seq, 1, IF n < Len(seq) THEN n ELSE Len(seq))

\* install_sgf with the restore cut short: the old history base is put back
\* but the old moves are not replayed
install_sgf_without_replay(s, sgf_board, new_move_history, komi_f, hcap) ==
    LET new == reset_to_moves(set_history_base(s, sgf_board),
                              new_move_history)
    IN  IF new.err = "ok"
        THEN Outcome([set_komi(new.st, komi_f).st EXCEPT !.handicap = hcap],
                     "ok", NoResult)
        ELSE Outcome(set_history_base(new.st, s.history_base),
                     "bad move in file", NoResult)

\* lines 477-490: install the file's position, or put the old one back
install_sgf(s, sgf_board, new_move_history, komi_f, hcap) ==
    LET old_history_base == s.history_base
        old_move_history == s.move_history
        new == reset_to_moves(set_history_base(s, sgf_board),
                              new_move_history)
        back == reset_to_moves(set_history_base(new.st, old_history_base),
                               old_move_history)
    IN  IF new.err = "ok"
        THEN LET k == set_komi(new.st, komi_f)
             IN  IF k.err # "ok" THEN Outcome(k.st, k.err, NoResult)
                 ELSE Outcome([k.st EXCEPT !.handicap = hcap], "ok",
                              NoResult)
        ELSE IF new.err # "ValueError"
        THEN Outcome(new.st, new.err, NoResult)
        ELSE IF back.err = "ValueError"
        THEN Outcome(back.st, "bad move in file and corrupt history",
                     NoResult)
        ELSE IF back.err # "ok" THEN Outcome(back.st, back.err, NoResult)
        ELSE Outcome(back.st, "bad move in file", NoResult)

\* loadsgf counting move_number from 0: the first move_number moves
handle_loadsgf_from_zero(s, file, move_number) ==
    IF ~file.readable THEN Outcome(s, "cannot load file", NoResult)
    ELSE IF file.size \notin AcceptableSizes
    THEN Outcome(s, "unacceptable size", NoResult)
    ELSE LET t == [s EXCEPT !.board_size = file.size]
             hcap == IF file.handicap_ok THEN file.handicap ELSE None
             sgf_moves == [i \in 1 .. Len(file.moves) |->
                              History_move(file.moves[i][1],
                                           file.moves[i][2], None, None)]
             new_move_history ==
                 IF move_number = None THEN sgf_moves
                 ELSE Take(sgf_moves,
                           IF The(move_number) > 0
                           THEN The(move_number) ELSE 0)
         IN  IF file.komi = None THEN Outcome(t, "bad komi", NoResult)
             ELSE IF file.setup = None
             THEN Outcome(t, "bad setup", NoResult)
             ELSE install_sgf(t, The(file.setup), new_move_history,
                              The(file.komi), hcap)

\* move_number is None where the command gives none
handle_loadsgf(s, file, move_number) ==
    IF ~file.readable THEN Outcome(s, "cannot load file", NoResult)
    ELSE IF file.size \notin AcceptableSizes
    THEN Outcome(s, "unacceptable size", NoResult)
    ELSE LET t == [s EXCEPT !.board_size = file.size]
             hcap == IF file.handicap_ok THEN file.handicap ELSE None
             sgf_moves == [i \in 1 .. Len(file.moves) |->
                              History_move(file.moves[i][1],
                                           file.moves[i][2], None, None)]
             new_move_history ==
                 IF move_number = None THEN sgf_moves
                 ELSE Take(sgf_moves,
                           IF The(move_number) - 1 > 0
                           THEN The(move_number) - 1 ELSE 0)
         IN  IF file.komi = None THEN Outcome(t, "bad komi", NoResult)
             ELSE IF file.setup = None
             THEN Outcome(t, "bad setup", NoResult)
             ELSE install_sgf(t, The(file.setup), new_move_history,
                              The(file.komi), hcap)

-----------------------------------------------------------------------------
(* savesgf: a string is a sequence of one-character strings *)

\* str.replace(old, new): every occurrence of old, found left to right
\* without overlap, becomes new
RECURSIVE Replace(_, _, _)
Replace(text, old, new) ==
    IF Len(text) < Len(old) THEN text
    ELSE IF SubSeq(text, 1, Len(old)) = old
    THEN new \o Replace(SubSeq(text, Len(old) + 1, Len(text)), old, new)
    ELSE <<Head(text)>> \o Replace(Tail(text), old, new)

\* str.isalpha() and str.upper() over the characters the tokens are made of
IsAlpha(text) == text # <<>> /\ \A i \in 1 .. Len(text) : text[i] \in {"k", "K"}

Upper(text) == [i \in 1 .. Len(text) |-> IF text[i] = "k" THEN "K" ELSE text[i]]

\* arg.split("=", 1): the parts before and after the first "=", or the
\* whole of arg where it has none
Split(arg) ==
    IF \E i \in 1 .. Len(arg) : arg[i] = "="
    THEN LET i == CHOOSE j \in 1 .. Len(arg) :
                      arg[j] = "=" /\ \A k \in 1 .. j - 1 : arg[k] # "="
         IN  <<SubSeq(arg, 1, i - 1), SubSeq(arg, i + 1, Len(arg))>>
    ELSE <<arg>>

\* the root property savesgf sets for one extra argument: [err, identifier,
\* value]
root_property(arg) ==
    IF Len(Split(arg)) # 2 \/ ~IsAlpha(Split(arg)[1])
    THEN [err |-> "bad arguments", identifier |-> <<>>, value |-> <<>>]
    ELSE [err |-> "ok",
          identifier |-> Upper(Split(arg)[1]),
          value |-> Replace(Replace(Split(arg)[2], <<"\\", "_">>, <<" ">>),
                            <<"\\", "\\">>, <<"\\">>)]

\* the game record savesgf writes when given one extra argument
Sgf_game(s, arg) ==
    [size |-> s.board_size, komi |-> s.komi, handicap |-> s.handicap,
     root_properties |-> {<<root_property(arg).identifier,
                            root_property(arg).value>>},
     setup_stones |-> {p \in Points(s.history_base.side) :
                          s.history_base.pts[p] # "e"},
     moves |-> [i \in 1 .. Len(s.move_history) |->
                   <<s.move_history[i].colour, s.move_history[i].coords,
                     s.move_history[i].comments>>]]

handle_savesgf(s, arg) ==
    IF root_property(arg).err # "ok"
    THEN Outcome(s, "bad arguments", NoResult)
    ELSE Outcome(s, "ok", NoResult)

-----------------------------------------------------------------------------
(* The commands the controller sends and what the move generator answers   *)

\* vertices named by the controller and by the move generator: A1 and B2
VertexArgs == {<<0,0>>, <<1,1>>}

SizeArgs == {2, 3, 4}

KomiArgs == {Fin(0), Fin(15)}

\* the whole range of komi arguments: -700.5, -625, -0.5, 0, 0.5, 7.5, 625.5,
\* 700, the infinities (as in komi 1e400) and NaN
MaxKomiHalves == 1400
WideKomiArgs ==
    {Fin(-MaxKomiHalves - 1), Fin(-2 * max_komi), Fin(-1), Fin(0), Fin(1),
     Fin(15), Fin(2 * max_komi + 1), Fin(MaxKomiHalves), PosInf, NegInf, NaN}

SetFreeArgs ==
    { << <<0,0>> >>,
      << <<0,1>>, <<1,0>> >>,
      << <<0,1>>, <<1,0>>, <<0,1>> >> }

\* what a move generator may answer: resign, pass or a move, the last two
\* with or without a claim
GenResults ==
    {Generated(TRUE, FALSE, None, FALSE, None, None)}
    \cup {Generated(FALSE, TRUE, None, c, None, None) : c \in BOOLEAN}
    \cup {Generated(FALSE, FALSE, Some(p), c, None, None) :
             p \in VertexArgs, c \in BOOLEAN}

PlaceGenResults == {g \in GenResults : ~g.claim}

\* the comments and cookie a move generator may attach to its answer
GenNotes == {<<None, None>>, <<Some("why"), Some("k1")>>}

\* every answer the move generator may give on a board of this size
AnyGenResults(size) ==
    {Generated(TRUE, FALSE, None, FALSE, n[1], n[2]) : n \in GenNotes}
    \cup {Generated(FALSE, TRUE, None, c, n[1], n[2]) :
             c \in BOOLEAN, n \in GenNotes}
    \cup {Generated(FALSE, FALSE, Some(p), c, n[1], n[2]) :
             p \in Points(size), c \in BOOLEAN, n \in GenNotes}

\* a move generator that may name any point of the board
WidePlaceGenResults(size) ==
    {Generated(TRUE, FALSE, None, FALSE, None, None),
     Generated(FALSE, TRUE, None, FALSE, None, None)}
    \cup {Generated(FALSE, FALSE, Some(p), FALSE, None, None) :
             p \in Points(size)}

\* a 3x3 position one move before a ko: white A1 captures the stone at B1
KoSetup ==
    [side |-> 3,
     pts |-> [p \in Points(3) |->
                 CASE p \in {<<0,2>>, <<1,1>>} -> "w"
                   [] p \in {<<0,1>>, <<1,0>>} -> "b"
                   [] OTHER -> "e"]]

SgfFiles ==
    { \* a ko fight: white takes the ko, black and white pass
      Sgf_file(TRUE, 3, Some(Fin(15)), TRUE, None, Some(KoSetup),
               << <<"w", Some(<<0,0>>)>>, <<"b", None>>, <<"w", None>> >>),
      \* the second move is on an occupied point
      Sgf_file(TRUE, 3, Some(Fin(15)), TRUE, Some(2), Some(Board(3)),
               << <<"b", Some(<<0,0>>)>>, <<"w", Some(<<0,0>>)>> >>),
      Sgf_file(TRUE, 2, Some(Fin(0)), FALSE, None, Some(Board(2)),
               << <<"b", Some(<<1,1>>)>>, <<"b", Some(<<1,1>>)>> >>),
      \* unreadable or unparseable
      Sgf_file(FALSE, 3, Some(Fin(0)), TRUE, None, Some(Board(3)), <<>>),
      \* a size the engine does not accept
      Sgf_file(TRUE, 4, Some(Fin(0)), TRUE, None, Some(Board(4)), <<>>),
      \* bad komi
      Sgf_file(TRUE, 3, None, TRUE, None, Some(Board(3)), <<>>),
      \* bad setup data
      Sgf_file(TRUE, 2, Some(Fin(15)), TRUE, None, None, <<>>) }

MoveNumbers == {None} \cup {Some(k) : k \in 0 .. MaxMoveNumber}

\* the record of the ko fight alone
KoSgfFiles ==
    {Sgf_file(TRUE, 3, Some(Fin(15)), TRUE, None, Some(KoSetup),
              << <<"w", Some(<<0,0>>)>>, <<"b", None>>, <<"w", None>> >>)}

\* what a move generator answers when it attaches a comment and a cookie
NotedGenResults ==
    {Generated(FALSE, TRUE, None, FALSE, Some("why"), Some("k1"))}
    \cup {Generated(FALSE, FALSE, Some(p), FALSE, Some("why"), Some("k1")) :
             p \in VertexArgs}

\* game records that differ in their komi only: one move on a 2x2 board
KomiSgfFiles ==
    {Sgf_file(TRUE, 2, Some(f), TRUE, None, Some(Board(2)),
              << <<"b", Some(<<0,0>>)>> >>) :
        f \in {Fin(-MaxKomiHalves - 1), Fin(-13), Fin(MaxKomiHalves), PosInf}}

\* the ko fight recorded as a two-stone handicap game
HandicapKoSgfFiles ==
    {Sgf_file(TRUE, 3, Some(Fin(15)), TRUE, Some(2), Some(KoSetup),
              << <<"w", Some(<<0,0>>)>> >>)}

\* time_left with 30 seconds left, in main time or with 5 stones to play;
\* time_settings of 60 seconds and 5 stones in 30 seconds
TimeLeftArgs == {<<30, 0>>, <<30, 5>>}

TimeSettingsArgs == {<<60, 30, 5>>}

\* seconds and stones as the invariants below try them
WideTimeArgs == {-1, 0, 5, 30}

\* a 9x9 game record whose komi cannot be read
NineSgfFiles ==
    {Sgf_file(TRUE, 9, None, TRUE, None, Some(Board(9)), <<>>)}

\* fixed_handicap arguments: none, too few, the smallest, the first with a
\* centre stone, the largest for an odd board, and too many
FixedHandicapArgs == {0, 1, 2, 5, 9, 10}

\* vertices played after a fixed handicap: pass, A1, the handicap point C3
\* and D4
HandicapPlayArgs == {None, Some(<<0,0>>), Some(<<2,2>>), Some(<<3,3>>)}

\* savesgf's extra arguments: k=value for every value made of these
\* characters, and arguments without "=" or without an alphabetic key
TokenChars == {"k", "\\", "_"}

SavesgfArgs ==
    {<<"k", "=">> \o v : v \in UNION {[1 .. n -> TokenChars] :
                                         n \in 0 .. MaxToken}}
    \cup {<<>>, <<"k">>, <<"=", "k">>, <<"1", "=", "k">>,
          <<"k", "=", "=">>}

-----------------------------------------------------------------------------
(* The engine as a state machine: one action per command *)

MinSize == CHOOSE n \in AcceptableSizes : \A m \in AcceptableSizes : n <= m

\* the engine becomes o.st, the state the handler leaves behind
Do(op, o) ==
    /\ board_size' = o.st.board_size
    /\ board' = o.st.board
    /\ handicap' = o.st.handicap
    /\ simple_ko_point' = o.st.simple_ko_point
    /\ simple_ko_player' = o.st.simple_ko_player
    /\ history_base' = o.st.history_base
    /\ move_history' = o.st.move_history
    /\ komi' = o.st.komi
    /\ time_settings' = o.st.time_settings
    /\ time_status' = o.st.time_status
    /\ live_history' = IF o.st.move_history = <<>> THEN TRUE
                       ELSE IF op = "loadsgf" /\ o.err = "ok" THEN FALSE
                       ELSE live_history
    /\ no_command_yet' = FALSE
    /\ UNCHANGED outside_gtp

GtpInit ==
    /\ board_size = MinSize
    /\ board = Board(MinSize)
    /\ handicap = None
    /\ simple_ko_point = None
    /\ simple_ko_player = None
    /\ history_base = Board(MinSize)
    /\ move_history = <<>>
    /\ komi = 0
    /\ time_settings = None
    /\ time_status = [c \in Colours |-> <<None, None>>]
    /\ live_history = TRUE
    /\ no_command_yet = TRUE

Boardsize == \E n \in SizeArgs : Do("boardsize", handle_boardsize(Cur, n))

ClearBoard == Do("clear_board", handle_clear_board(Cur))

Komi == \E f \in KomiArgs : Do("komi", handle_komi(Cur, f))

FixedHandicap ==
    /\ Len(move_history) <= MaxHandicapHist
    /\ \E n \in 2 .. 3 : Do("fixed_handicap", handle_fixed_handicap(Cur, n))

SetFreeHandicap ==
    /\ Len(move_history) <= MaxHandicapHist
    /\ \E args \in SetFreeArgs :
        Do("set_free_handicap", handle_set_free_handicap(Cur, args))

PlaceFreeHandicap ==
    /\ Len(move_history) <= MaxHandicapHist
    /\ \E n \in 1 .. MaxHandicap :
        \E gen \in [1 .. n -> PlaceGenResults] :
            Do("place_free_handicap", handle_place_free_handicap(Cur, n, gen))

Play ==
    /\ Len(move_history) < MaxHist
    /\ \E colour \in Colours :
          \E vertex \in {None} \cup {Some(p) : p \in VertexArgs} :
              Do("play", handle_play(Cur, colour, vertex))

Genmove ==
    /\ Len(move_history) < MaxHist
    /\ \E colour \in Colours : \E g \in GenResults :
          Do("genmove", handle_genmove(Cur, colour, g))

GenmoveClaim ==
    /\ Len(move_history) < MaxHist
    /\ \E colour \in Colours : \E g \in GenResults :
          Do("genmove_claim", handle_genmove_claim(Cur, colour, g))

RegGenmove ==
    \E colour \in Colours : \E g \in GenResults :
        Do("reg_genmove", handle_reg_genmove(Cur, colour, g))

Undo == Do("undo", handle_undo(Cur))

Loadsgf ==
    \E file \in SgfFiles : \E k \in MoveNumbers :
        Do("loadsgf", handle_loadsgf(Cur, file, k))

\* komi with any argument, and loadsgf of records with any komi
KomiWide == \E f \in WideKomiArgs : Do("komi", handle_komi(Cur, f))

LoadsgfKomi ==
    \E file \in KomiSgfFiles : \E k \in MoveNumbers :
        Do("loadsgf", handle_loadsgf(Cur, file, k))

KomiNext ==
    \/ KomiWide
    \/ LoadsgfKomi
    \/ Boardsize
    \/ Play
    \/ Undo

\* game_state.komi of the generator calls handle_place_free_handicap makes,
\* in order: none when the command is refused before its loop
place_free_handicap_komis(s, n, gen) ==
    LET max_points == max_free_handicap_for_board_size(s.board_size)
        number_of_stones == IF n = max_points THEN max_points - 1 ELSE n
    IN  IF ~(2 <= n /\ n <= max_points) \/ ~BoardIsEmpty(s.board) THEN <<>>
        ELSE PlaceFreeLoop(s.board, gen, 1, number_of_stones, 0,
                           s.board_size * s.board_size - 2, <<>>).komis

\* place_free_handicap with a generator that may name any point
PlaceFreeWide ==
    \E n \in 1 .. MaxHandicap :
        \E gen \in [1 .. n -> WidePlaceGenResults(board_size)] :
            Do("place_free_handicap", handle_place_free_handicap(Cur, n, gen))

HandicapNext ==
    \/ Boardsize
    \/ ClearBoard
    \/ FixedHandicap
    \/ SetFreeHandicap
    \/ PlaceFreeWide

\* loadsgf of the ko fight, and genmove with a generator that attaches a
\* comment and a cookie to its move
LoadsgfKo ==
    \E file \in KoSgfFiles : \E k \in MoveNumbers :
        Do("loadsgf", handle_loadsgf(Cur, file, k))

GenmoveNoted ==
    /\ Len(move_history) < MaxHist
    /\ \E colour \in Colours : \E g \in NotedGenResults :
          Do("genmove", handle_genmove(Cur, colour, g))

MovesNext ==
    \/ LoadsgfKo
    \/ Play
    \/ Genmove
    \/ GenmoveNoted
    \/ GenmoveClaim
    \/ RegGenmove
    \/ Undo

\* place_free_handicap on boards of either size, with any komi set
PlaceNext ==
    \/ Boardsize
    \/ ClearBoard
    \/ Komi
    \/ PlaceFreeWide

\* savesgf with one extra-property argument
SgfInit ==
    /\ saved_game = None
    /\ savesgf_arg = None

Savesgf ==
    \E arg \in SavesgfArgs :
        /\ savesgf_arg' = Some(arg)
        /\ saved_game' = IF handle_savesgf(Cur, arg).err = "ok"
                         THEN Some(Sgf_game(Cur, arg)) ELSE None
        /\ no_command_yet' = FALSE
        /\ UNCHANGED <<board_size, board, handicap, simple_ko_point,
                       simple_ko_player, history_base, move_history, komi,
                       time_settings, time_status, live_history>>
        /\ UNCHANGED <<chan_vars, alloc_vars, sched_vars, tourn_vars>>

SavesgfNext ==
    \/ Savesgf
    \/ Komi

\* the clock commands, with a handicap game to clear away
TimeLeft ==
    \E colour \in Colours : \E a \in TimeLeftArgs :
        Do("time_left", handle_time_left(Cur, colour, a[1], a[2]))

TimeSettings ==
    \E a \in TimeSettingsArgs :
        Do("time_settings", handle_time_settings(Cur, a[1], a[2], a[3]))

LoadsgfHandicapKo ==
    \E file \in HandicapKoSgfFiles : \E k \in MoveNumbers :
        Do("loadsgf", handle_loadsgf(Cur, file, k))

TimeNext ==
    \/ TimeLeft
    \/ TimeSettings
    \/ LoadsgfHandicapKo
    \/ Boardsize
    \/ ClearBoard
    \/ Komi
    \/ Genmove

\* fixed_handicap on a board large enough to have handicap points
BoardsizeNine == Do("boardsize", handle_boardsize(Cur, 9))

FixedHandicapNine ==
    \E n \in {2, 5} : Do("fixed_handicap", handle_fixed_handicap(Cur, n))

LoadsgfNine ==
    \E file \in NineSgfFiles :
        Do("loadsgf", handle_loadsgf(Cur, file, None))

FixedNext ==
    \/ Boardsize
    \/ BoardsizeNine
    \/ FixedHandicapNine
    \/ LoadsgfNine
    \/ Play
    \/ Undo

\* loadsgf of game records with setup stones, a handicap and any komi
LoadNext ==
    \/ LoadsgfKo
    \/ LoadsgfKomi
    \/ LoadsgfHandicapKo
    \/ Boardsize
    \/ Play
    \/ Undo

GtpNext ==
    \/ Boardsize
    \/ ClearBoard
    \/ Komi
    \/ FixedHandicap
    \/ SetFreeHandicap
    \/ PlaceFreeHandicap
    \/ Play
    \/ Genmove
    \/ GenmoveClaim
    \/ RegGenmove
    \/ Undo
    \/ Loadsgf

-----------------------------------------------------------------------------
(* Subprocess_gtp_channel.  A byte is "a" or the newline "nl" on the       *)
(* response stream and "x" on the diagnostic stream; a string is a         *)
(* sequence of bytes.                                                      *)

ResponseBytes == {"a", "nl"}
DiagBytes == {"x"}

\* python's s.find("\n"), counted from 1; 0 where there is none
FindNewline(s) ==
    IF \E i \in 1 .. Len(s) : s[i] = "nl"
    THEN CHOOSE i \in 1 .. Len(s) :
             s[i] = "nl" /\ \A j \in 1 .. i - 1 : s[j] # "nl"
    ELSE 0

\* python's "".join(chunks)
RECURSIVE Join(_)
Join(chunks) ==
    IF chunks = <<>> THEN <<>> ELSE Head(chunks) \o Join(Tail(chunks))

ChanInit ==
    /\ response_data = <<>>
    /\ seen_eof = FALSE
    /\ error_data = <<>>
    /\ pipes_to_poll = {"response", "error"}
    /\ response_pipe = <<>>
    /\ response_closed = FALSE
    /\ error_pipe = <<>>
    /\ error_closed = FALSE
    /\ pc = "idle"
    /\ response_written = <<>>
    /\ returned = <<>>
    /\ exit_status = None
    /\ resource_usage = None
    /\ errors = <<>>
    /\ diag_written = <<>>
    /\ diag_returned = <<>>
    /\ byte_returns = {}
    /\ commands_sent = 0
    /\ close_attempted = <<>>
    /\ raised = <<>>

\* the pipes select() reports readable: those polled that hold bytes or are
\* at end of file
Readable ==
    {p \in pipes_to_poll :
        \/ p = "response" /\ (response_pipe # <<>> \/ response_closed)
        \/ p = "error" /\ (error_pipe # <<>> \/ error_closed)}

\* a reader that keeps only the latest chunk
handle_response_data_overwrites ==
    /\ IF response_pipe # <<>>
       THEN /\ response_data' = response_pipe
            /\ UNCHANGED <<seen_eof, pipes_to_poll>>
       ELSE /\ seen_eof' = TRUE
            /\ pipes_to_poll' = pipes_to_poll \ {"response"}
            /\ UNCHANGED response_data
    /\ response_pipe' = <<>>
    /\ UNCHANGED <<error_data, error_pipe>>

\* read() takes every byte now in the pipe; it returns "" at end of file
handle_response_data ==
    /\ IF response_pipe # <<>>
       THEN /\ response_data' = response_data \o response_pipe
            /\ UNCHANGED <<seen_eof, pipes_to_poll>>
       ELSE /\ seen_eof' = TRUE
            /\ pipes_to_poll' = pipes_to_poll \ {"response"}
            /\ UNCHANGED response_data
    /\ response_pipe' = <<>>
    /\ UNCHANGED <<error_data, error_pipe>>

\* a reader that goes on polling the diagnostic stream after its end
handle_error_data_keeps_polling ==
    /\ IF error_pipe # <<>>
       THEN error_data' = Append(error_data, error_pipe)
       ELSE UNCHANGED error_data
    /\ error_pipe' = <<>>
    /\ UNCHANGED <<response_data, seen_eof, response_pipe, pipes_to_poll>>

handle_error_data ==
    /\ IF error_pipe # <<>>
       THEN /\ error_data' = Append(error_data, error_pipe)
            /\ UNCHANGED pipes_to_poll
       ELSE /\ pipes_to_poll' = pipes_to_poll \ {"error"}
            /\ UNCHANGED error_data
    /\ error_pipe' = <<>>
    /\ UNCHANGED <<response_data, seen_eof, response_pipe>>

\* select() returns once a polled pipe is readable; one pipe is served
handle_event ==
    /\ Readable # {}
    /\ IF "error" \in Readable THEN handle_error_data
       ELSE handle_response_data

\* the line get_response_line cuts off the buffer at the newline at i
LineUpTo(i) == SubSeq(response_data, 1, i)

RestAfter(i) == SubSeq(response_data, i + 1, Len(response_data))

\* the caller calls get_response_line
CallGetResponseLine ==
    /\ pc = "idle"
    /\ Len(returned) < MaxCalls
    /\ pc' = "line"
    /\ UNCHANGED <<response_data, seen_eof, error_data, pipes_to_poll,
                   response_pipe, response_closed, error_pipe, error_closed,
                   response_written, returned>>
    /\ UNCHANGED <<outside_chan, call_vars, diag_written>>

\* one turn of the loop of get_response_line: a buffered line is returned
GetLineReturnsLine ==
    /\ pc = "line"
    /\ FindNewline(response_data) # 0
    /\ returned' = Append(returned,
                          [line |-> LineUpTo(FindNewline(response_data)),
                           seen_eof |-> seen_eof])
    /\ response_data' = RestAfter(FindNewline(response_data))
    /\ pc' = "idle"
    /\ UNCHANGED <<seen_eof, error_data, pipes_to_poll, response_pipe,
                   response_closed, error_pipe, error_closed,
                   response_written>>
    /\ UNCHANGED <<outside_chan, call_vars, diag_written>>

\* ... or, at end of file, what is buffered is returned
GetLineReturnsRemainder ==
    /\ pc = "line"
    /\ FindNewline(response_data) = 0
    /\ seen_eof
    /\ returned' = Append(returned,
                          [line |-> response_data, seen_eof |-> seen_eof])
    /\ pc' = "idle"
    /\ UNCHANGED <<response_data, seen_eof, error_data, pipes_to_poll,
                   response_pipe, response_closed, error_pipe, error_closed,
                   response_written>>
    /\ UNCHANGED <<outside_chan, call_vars, diag_written>>

\* ... or the call waits for an event and handles it
GetLineHandlesEvent ==
    /\ pc = "line"
    /\ FindNewline(response_data) = 0
    /\ ~seen_eof
    /\ handle_event
    /\ UNCHANGED <<response_closed, error_closed, pc, response_written,
                   returned>>
    /\ UNCHANGED <<outside_chan, call_vars, diag_written>>

\* the subprocess writes a byte to its standard output
PeerWritesResponse ==
    /\ ~response_closed
    /\ Len(response_written) < MaxResponse
    /\ \E b \in ResponseBytes :
          /\ response_pipe' = Append(response_pipe, b)
          /\ response_written' = Append(response_written, b)
    /\ UNCHANGED <<response_data, seen_eof, error_data, pipes_to_poll,
                   response_closed, error_pipe, error_closed, pc, returned>>
    /\ UNCHANGED <<outside_chan, call_vars, diag_written>>

\* the subprocess writes a byte to its standard error
PeerWritesDiag ==
    /\ ~error_closed
    /\ Len(error_pipe) + Len(Join(error_data)) < MaxDiag
    /\ \E b \in DiagBytes :
          /\ error_pipe' = Append(error_pipe, b)
          /\ diag_written' = Append(diag_written, b)
    /\ UNCHANGED <<response_data, seen_eof, error_data, pipes_to_poll,
                   response_pipe, response_closed, error_closed, pc,
                   response_written, returned>>
    /\ UNCHANGED <<outside_chan, call_vars>>

\* the subprocess closes its standard output (or exits)
PeerClosesResponse ==
    /\ ~response_closed
    /\ response_closed' = TRUE
    /\ UNCHANGED <<response_data, seen_eof, error_data, pipes_to_poll,
                   response_pipe, error_pipe, error_closed, pc,
                   response_written, returned>>
    /\ UNCHANGED <<outside_chan, call_vars, diag_written>>

\* the subprocess closes its standard error
PeerClosesDiag ==
    /\ ~error_closed
    /\ error_closed' = TRUE
    /\ UNCHANGED <<response_data, seen_eof, error_data, pipes_to_poll,
                   response_pipe, response_closed, error_pipe, pc,
                   response_written, returned>>
    /\ UNCHANGED <<outside_chan, call_vars, diag_written>>

ChanNext ==
    \/ CallGetResponseLine
    \/ GetLineReturnsLine
    \/ GetLineReturnsRemainder
    \/ GetLineHandlesEvent
    \/ PeerWritesResponse
    \/ PeerWritesDiag
    \/ PeerClosesResponse
    \/ PeerClosesDiag

\* get_response_byte: the first byte of the buffer, and the buffer without it
FirstByte == SubSeq(response_data, 1, 1)

\* a buffer the returned byte stays in
RestAfterByte_keeping_it == response_data

RestAfterByte == Tail(response_data)

\* the caller calls get_response_byte
CallGetResponseByte ==
    /\ pc = "idle"
    /\ Len(returned) < MaxCalls
    /\ pc' = "byte"
    /\ UNCHANGED <<response_data, seen_eof, error_data, pipes_to_poll,
                   response_pipe, response_closed, error_pipe, error_closed,
                   response_written, returned>>
    /\ UNCHANGED <<outside_chan, call_vars, diag_written>>

\* one turn of the loop of get_response_byte: a buffered byte is returned
GetByteReturnsByte ==
    /\ pc = "byte"
    /\ response_data # <<>>
    /\ returned' = Append(returned,
                          [line |-> FirstByte, seen_eof |-> seen_eof])
    /\ byte_returns' = byte_returns \cup
                          {[at |-> Len(returned) + 1,
                            buffered |-> response_data]}
    /\ response_data' = RestAfterByte
    /\ pc' = "idle"
    /\ UNCHANGED <<seen_eof, error_data, pipes_to_poll, response_pipe,
                   response_closed, error_pipe, error_closed,
                   response_written>>
    /\ UNCHANGED <<outside_chan, diag_written, exit_status, resource_usage,
                   errors, diag_returned, commands_sent, close_attempted,
                   raised>>

\* ... or, at end of file, the empty string is returned
GetByteReturnsEmpty ==
    /\ pc = "byte"
    /\ response_data = <<>>
    /\ seen_eof
    /\ returned' = Append(returned, [line |-> <<>>, seen_eof |-> seen_eof])
    /\ byte_returns' = byte_returns \cup
                          {[at |-> Len(returned) + 1,
                            buffered |-> response_data]}
    /\ pc' = "idle"
    /\ UNCHANGED <<response_data, seen_eof, error_data, pipes_to_poll,
                   response_pipe, response_closed, error_pipe, error_closed,
                   response_written>>
    /\ UNCHANGED <<outside_chan, diag_written, exit_status, resource_usage,
                   errors, diag_returned, commands_sent, close_attempted,
                   raised>>

\* ... or the call waits for an event and handles it
GetByteHandlesEvent ==
    /\ pc = "byte"
    /\ response_data = <<>>
    /\ ~seen_eof
    /\ handle_event
    /\ UNCHANGED <<response_closed, error_closed, pc, response_written,
                   returned>>
    /\ UNCHANGED <<outside_chan, call_vars, diag_written>>

\* the channel read by lines and by bytes
BytesNext ==
    \/ CallGetResponseLine
    \/ CallGetResponseByte
    \/ GetLineReturnsLine
    \/ GetLineReturnsRemainder
    \/ GetLineHandlesEvent
    \/ GetByteReturnsByte
    \/ GetByteReturnsEmpty
    \/ GetByteHandlesEvent
    \/ PeerWritesResponse
    \/ PeerWritesDiag
    \/ PeerClosesResponse
    \/ PeerClosesDiag

\* retrieve_diagnostics: what it returns, and error_data afterwards
DiagnosticsText == Join(error_data)

\* an error_data that retrieve_diagnostics leaves as it was
ErrorDataAfterRetrieve_uncleared == error_data

ErrorDataAfterRetrieve == <<>>

\* the caller calls retrieve_diagnostics; `drained` is the number of
\* diagnostic bytes the channel had read when it was called
RetrieveDiagnostics ==
    /\ pc = "idle"
    /\ Len(diag_returned) < MaxCalls
    /\ diag_returned' = Append(diag_returned,
                               [text |-> DiagnosticsText,
                                drained |-> Len(diag_written)
                                                - Len(error_pipe)])
    /\ error_data' = ErrorDataAfterRetrieve
    /\ UNCHANGED <<response_data, seen_eof, pipes_to_poll, response_pipe,
                   response_closed, error_pipe, error_closed, pc,
                   response_written, returned, diag_written>>
    /\ UNCHANGED <<outside_chan, exit_status, resource_usage, errors,
                   byte_returns, commands_sent, close_attempted, raised>>

\* the bytes a subprocess may write to its standard error
WideDiagBytes == {"x", "y"}

\* the subprocess writes one of two bytes to its standard error
PeerWritesAnyDiag ==
    /\ ~error_closed
    /\ Len(diag_written) < MaxDiag
    /\ \E b \in WideDiagBytes :
          /\ error_pipe' = Append(error_pipe, b)
          /\ diag_written' = Append(diag_written, b)
    /\ UNCHANGED <<response_data, seen_eof, error_data, pipes_to_poll,
                   response_pipe, response_closed, error_closed, pc,
                   response_written, returned>>
    /\ UNCHANGED <<outside_chan, call_vars>>

\* the subprocess writes an empty line to its standard output
PeerWritesNewline ==
    /\ ~response_closed
    /\ Len(response_written) < MaxResponse
    /\ response_pipe' = Append(response_pipe, "nl")
    /\ response_written' = Append(response_written, "nl")
    /\ UNCHANGED <<response_data, seen_eof, error_data, pipes_to_poll,
                   response_closed, error_pipe, error_closed, pc, returned>>
    /\ UNCHANGED <<outside_chan, call_vars, diag_written>>

\* the channel read by lines and bytes, with its diagnostics retrieved
DiagNext ==
    \/ CallGetResponseLine
    \/ CallGetResponseByte
    \/ GetLineReturnsLine
    \/ GetLineReturnsRemainder
    \/ GetLineHandlesEvent
    \/ GetByteReturnsByte
    \/ GetByteReturnsEmpty
    \/ GetByteHandlesEvent
    \/ RetrieveDiagnostics
    \/ PeerWritesNewline
    \/ PeerWritesAnyDiag
    \/ PeerClosesResponse
    \/ PeerClosesDiag

\* send_command_line.  The write or the flush may fail with any errno.
SendOutcomes == {"ok", "EPIPE", "EIO"}

\* the exception send_command_line raises for an EnvironmentError
SendFailureRaises(errno) ==
    IF errno = "EPIPE" THEN "GtpChannelClosed" ELSE "GtpTransportError"

\* one exception reaching the caller: the call, the failure behind it, the
\* exception's class and, for close(), the messages it carries
Raised(call, failure, exception, message) ==
    [call |-> call, failure |-> failure, exception |-> exception,
     message |-> message]

SendCommandLine ==
    /\ pc = "idle"
    /\ commands_sent < MaxCalls
    /\ Len(raised) < MaxFailures
    /\ \E outcome \in SendOutcomes :
          IF outcome = "ok"
          THEN commands_sent' = commands_sent + 1 /\ UNCHANGED raised
          ELSE /\ raised' = Append(raised,
                                   Raised("send", outcome,
                                          SendFailureRaises(outcome), <<>>))
               /\ UNCHANGED commands_sent
    /\ UNCHANGED <<response_data, seen_eof, error_data, pipes_to_poll,
                   response_pipe, response_closed, error_pipe, error_closed,
                   pc, response_written, returned, diag_written>>
    /\ UNCHANGED <<outside_chan, exit_status, resource_usage, errors,
                   diag_returned, byte_returns, close_attempted>>

\* The steps of _handle_event that may fail, and what python raises there:
\* select.select raises select.error, the read() of a file raises IOError.
EventFailures == {"select", "read"}

PythonRaises(failure) ==
    IF failure = "select" THEN "select.error" ELSE "IOError"

\* IOError and OSError are EnvironmentErrors; select.error derives from
\* Exception alone
IsEnvironmentError(exception) == exception \in {"IOError", "OSError"}

\* `except EnvironmentError` around _handle_event: anything else goes
\* through to the caller as it is
EventFailureRaises(failure) ==
    IF IsEnvironmentError(PythonRaises(failure)) THEN "GtpTransportError"
    ELSE PythonRaises(failure)

\* get_response_line or get_response_byte is about to wait for an event
WaitsForEvent ==
    \/ pc = "line" /\ FindNewline(response_data) = 0 /\ ~seen_eof
    \/ pc = "byte" /\ response_data = <<>> /\ ~seen_eof

\* the wait or the read fails, and the call ends with an exception
GetResponseEventFails ==
    /\ WaitsForEvent
    /\ Len(raised) < MaxFailures
    /\ \E failure \in EventFailures :
          /\ failure = "read" => Readable # {}
          /\ raised' = Append(raised,
                              Raised(pc, failure,
                                     EventFailureRaises(failure), <<>>))
    /\ pc' = "idle"
    /\ UNCHANGED <<response_data, seen_eof, error_data, pipes_to_poll,
                   response_pipe, response_closed, error_pipe, error_closed,
                   response_written, returned, diag_written>>
    /\ UNCHANGED <<outside_chan, exit_status, resource_usage, errors,
                   diag_returned, byte_returns, commands_sent,
                   close_attempted>>

\* close().  Its three steps in order, the messages a failed step adds to
\* `errors`, and where close() goes after a step.
CloseSteps == <<"command_pipe", "response_pipe", "wait">>

CloseMessages(step) ==
    CASE step = "command_pipe" -> <<"error closing command pipe: e1">>
      [] step = "response_pipe" -> <<"error closing response pipe: e2", "e2">>
      [] OTHER -> <<"e3">>

\* the failed step a message of `errors` is about
StepOfMessage(m) ==
    CHOOSE step \in {"command_pipe", "response_pipe", "wait"} :
        \E i \in 1 .. Len(CloseMessages(step)) : CloseMessages(step)[i] = m

\* a close() that gives up at the first step that fails
AfterCloseStep_stopping(step, failed) ==
    IF failed \/ step = "wait" THEN "closed"
    ELSE IF step = "command_pipe" THEN "close_response_pipe"
    ELSE "close_wait"

AfterCloseStep(step, failed) ==
    CASE step = "command_pipe" -> "close_response_pipe"
      [] step = "response_pipe" -> "close_wait"
      [] OTHER -> "closed"

CloseCommandPipe ==
    /\ pc = "idle"
    /\ \E failed \in BOOLEAN :
          /\ errors' = IF failed THEN CloseMessages("command_pipe") ELSE <<>>
          /\ close_attempted' =
                 Append(close_attempted,
                        [step |-> "command_pipe", failed |-> failed])
          /\ pc' = AfterCloseStep("command_pipe", failed)
    /\ UNCHANGED <<response_data, seen_eof, error_data, pipes_to_poll,
                   response_pipe, response_closed, error_pipe, error_closed,
                   response_written, returned, diag_written>>
    /\ UNCHANGED <<outside_chan, exit_status, resource_usage, diag_returned,
                   byte_returns, commands_sent, raised>>

CloseResponsePipe ==
    /\ pc = "close_response_pipe"
    /\ \E failed \in BOOLEAN :
          /\ errors' = IF failed
                       THEN errors \o CloseMessages("response_pipe")
                       ELSE errors
          /\ close_attempted' =
                 Append(close_attempted,
                        [step |-> "response_pipe", failed |-> failed])
          /\ pc' = AfterCloseStep("response_pipe", failed)
    /\ UNCHANGED <<response_data, seen_eof, error_data, pipes_to_poll,
                   response_pipe, response_closed, error_pipe, error_closed,
                   response_written, returned, diag_written>>
    /\ UNCHANGED <<outside_chan, exit_status, resource_usage, diag_returned,
                   byte_returns, commands_sent, raised>>

\* os.wait4, and the raise that ends close() when `errors` is not empty
CloseWait ==
    /\ pc = "close_wait"
    /\ \E failed \in BOOLEAN :
          LET errs == IF failed THEN errors \o CloseMessages("wait")
                      ELSE errors
          IN  /\ errors' = errs
              /\ exit_status' = IF failed THEN exit_status ELSE Some(0)
              /\ resource_usage' = IF failed THEN resource_usage
                                   ELSE Some("rusage")
              /\ close_attempted' =
                     Append(close_attempted,
                            [step |-> "wait", failed |-> failed])
              /\ raised' = IF errs # <<>>
                           THEN Append(raised,
                                       Raised("close", "EnvironmentError",
                                              "GtpTransportError", errs))
                           ELSE raised
              /\ pc' = AfterCloseStep("wait", failed)
    /\ UNCHANGED <<response_data, seen_eof, error_data, pipes_to_poll,
                   response_pipe, response_closed, error_pipe, error_closed,
                   response_written, returned, diag_written>>
    /\ UNCHANGED <<outside_chan, diag_returned, byte_returns, commands_sent>>

\* the channel with its I/O failing
FailNext ==
    \/ SendCommandLine
    \/ CallGetResponseLine
    \/ CallGetResponseByte
    \/ GetLineReturnsLine
    \/ GetLineReturnsRemainder
    \/ GetLineHandlesEvent
    \/ GetByteReturnsByte
    \/ GetByteReturnsEmpty
    \/ GetByteHandlesEvent
    \/ GetResponseEventFails
    \/ PeerWritesNewline
    \/ PeerClosesResponse

\* the channel read by lines until it is closed
CloseNext ==
    \/ CallGetResponseLine
    \/ GetLineReturnsLine
    \/ GetLineReturnsRemainder
    \/ GetLineHandlesEvent
    \/ CloseCommandPipe
    \/ CloseResponsePipe
    \/ CloseWait
    \/ PeerWritesNewline
    \/ PeerClosesResponse

-----------------------------------------------------------------------------
(* competitions.Id_allocator *)

\* the allocator's fields as one record
Alloc == [next_new |-> next_new, outstanding |-> outstanding,
          to_reissue |-> to_reissue]

\* python's min() of a non-empty set of integers
Min(S) == CHOOSE x \in S : \A y \in S : x <= y

Max(S) == CHOOSE x \in S : \A y \in S : x >= y

\* issue() handing out the largest id that is due again
issue_largest_first(a) ==
    IF a.to_reissue # {}
    THEN [st |-> [a EXCEPT !.to_reissue = @ \ {Max(a.to_reissue)},
                           !.outstanding = @ \cup {Max(a.to_reissue)}],
          result |-> Max(a.to_reissue)]
    ELSE [st |-> [a EXCEPT !.next_new = @ + 1,
                           !.outstanding = @ \cup {a.next_new}],
          result |-> a.next_new]

\* issue(): [st, result]
issue(a) ==
    IF a.to_reissue # {}
    THEN [st |-> [a EXCEPT !.to_reissue = @ \ {Min(a.to_reissue)},
                           !.outstanding = @ \cup {Min(a.to_reissue)}],
          result |-> Min(a.to_reissue)]
    ELSE [st |-> [a EXCEPT !.next_new = @ + 1,
                           !.outstanding = @ \cup {a.next_new}],
          result |-> a.next_new]

\* fix(i), for i in outstanding (set.remove raises KeyError otherwise)
fix(a, i) == [a EXCEPT !.outstanding = @ \ {i}]

\* rollback() that queues the outstanding ids without forgetting them
rollback_keeping_outstanding(a) ==
    [a EXCEPT !.to_reissue = @ \cup a.outstanding]

rollback(a) ==
    [a EXCEPT !.to_reissue = @ \cup a.outstanding, !.outstanding = {}]

\* count_issued() counting every id ever handed out
count_issued_ever(a) == a.next_new

count_issued(a) == a.next_new - Cardinality(a.to_reissue)

count_fixed(a) ==
    a.next_new - Cardinality(a.outstanding) - Cardinality(a.to_reissue)

AllocInit ==
    /\ next_new = 0
    /\ outstanding = {}
    /\ to_reissue = {}
    /\ issued_ids = {}
    /\ fixed_ids = {}
    /\ since_rollback = <<>>
    /\ rolled_back = FALSE

\* the allocator becomes a
AllocBecomes(a) ==
    /\ next_new' = a.next_new
    /\ outstanding' = a.outstanding
    /\ to_reissue' = a.to_reissue
    /\ UNCHANGED outside_alloc

Issue ==
    /\ to_reissue # {} \/ next_new < MaxIds
    /\ AllocBecomes(issue(Alloc).st)
    /\ issued_ids' = issued_ids \cup {issue(Alloc).result}
    /\ since_rollback' = Append(since_rollback, issue(Alloc).result)
    /\ UNCHANGED <<fixed_ids, rolled_back>>

Fix ==
    \E i \in outstanding :
        /\ AllocBecomes(fix(Alloc, i))
        /\ fixed_ids' = fixed_ids \cup {i}
        /\ UNCHANGED <<issued_ids, since_rollback, rolled_back>>

Rollback ==
    /\ AllocBecomes(rollback(Alloc))
    /\ since_rollback' = <<>>
    /\ rolled_back' = TRUE
    /\ UNCHANGED <<issued_ids, fixed_ids>>

AllocNext ==
    \/ Issue
    \/ Fix
    \/ Rollback

-----------------------------------------------------------------------------
(* competitions.Group_scheduler *)

\* the scheduler's fields as one record
Sched == [allocators |-> allocators, limits |-> limits]

\* Id_allocator()
New_allocator == [next_new |-> 0, outstanding |-> {}, to_reissue |-> {}]

\* the group codes with issue_count below their limit, or with no limit
available(sch) ==
    {g \in DOMAIN sch.allocators :
        \/ sch.limits[g] = None
        \/ count_issued(sch.allocators[g]) < The(sch.limits[g])}

\* issue() choosing the largest group code among those with the fewest
\* issued games
Group_scheduler_issue_last_code(sch) ==
    IF available(sch) = {}
    THEN [st |-> sch, result |-> <<None, None>>]
    ELSE LET fewest == Min({count_issued(sch.allocators[g]) :
                               g \in available(sch)})
             group_code == Max({g \in available(sch) :
                                  count_issued(sch.allocators[g]) = fewest})
         IN  [st |-> [sch EXCEPT !.allocators[group_code] = issue(@).st],
              result |-> <<Some(group_code),
                           Some(issue(sch.allocators[group_code]).result)>>]

\* issue(): [st, result]; min(available) is the least pair (issue_count,
\* group_code); the token is <<Some(group code), Some(game number)>>
Group_scheduler_issue(sch) ==
    IF available(sch) = {}
    THEN [st |-> sch, result |-> <<None, None>>]
    ELSE LET fewest == Min({count_issued(sch.allocators[g]) :
                               g \in available(sch)})
             group_code == Min({g \in available(sch) :
                                  count_issued(sch.allocators[g]) = fewest})
         IN  [st |-> [sch EXCEPT !.allocators[group_code] = issue(@).st],
              result |-> <<Some(group_code),
                           Some(issue(sch.allocators[group_code]).result)>>]

\* set_groups(group_specs): group_specs maps each group code to its limit
set_groups(sch, group_specs) ==
    [allocators |-> [g \in DOMAIN group_specs |->
                        IF g \in DOMAIN sch.allocators
                        THEN sch.allocators[g] ELSE New_allocator],
     limits |-> group_specs]

Group_scheduler_fix(sch, group_code, game_number) ==
    [sch EXCEPT !.allocators[group_code] = fix(@, game_number)]

Group_scheduler_rollback(sch) ==
    [sch EXCEPT !.allocators = [g \in DOMAIN @ |-> rollback(@[g])]]

\* the group codes and limits a competition may set
GroupCodes == {1, 2}

Limits == {None, Some(0), Some(1), Some(2)}

GroupSpecs ==
    UNION {[G -> Limits] : G \in (SUBSET GroupCodes) \ {{}}}

SchedInit ==
    /\ allocators = <<>>
    /\ limits = <<>>
    /\ group_issued = <<>>
    /\ group_fixed = <<>>
    /\ group_held = <<>>

\* the scheduler becomes sch
SchedBecomes(sch) ==
    /\ allocators' = sch.allocators
    /\ limits' = sch.limits
    /\ UNCHANGED outside_sched

\* h for the groups kept, nothing for the groups that are new
KeptHistory(h, group_specs) ==
    [g \in DOMAIN group_specs |-> IF g \in DOMAIN h THEN h[g] ELSE {}]

SetGroups ==
    \E group_specs \in GroupSpecs :
        /\ SchedBecomes(set_groups(Sched, group_specs))
        /\ group_issued' = KeptHistory(group_issued, group_specs)
        /\ group_fixed' = KeptHistory(group_fixed, group_specs)
        /\ group_held' = KeptHistory(group_held, group_specs)

SchedIssue ==
    LET r == Group_scheduler_issue(Sched)
        g == The(r.result[1])
        n == The(r.result[2])
    IN  /\ r.result # <<None, None>>
        /\ r.st.allocators[g].next_new <= MaxGames
        /\ SchedBecomes(r.st)
        /\ group_issued' = [group_issued EXCEPT ![g] = @ \cup {n}]
        /\ group_held' = [group_held EXCEPT ![g] = @ \cup {n}]
        /\ UNCHANGED group_fixed

\* issue() with every group at its limit
SchedIssueNone ==
    /\ Group_scheduler_issue(Sched).result = <<None, None>>
    /\ SchedBecomes(Group_scheduler_issue(Sched).st)
    /\ UNCHANGED <<group_issued, group_fixed, group_held>>

SchedFix ==
    \E g \in DOMAIN allocators : \E n \in allocators[g].outstanding :
        /\ SchedBecomes(Group_scheduler_fix(Sched, g, n))
        /\ group_fixed' = [group_fixed EXCEPT ![g] = @ \cup {n}]
        /\ group_held' = [group_held EXCEPT ![g] = @ \ {n}]
        /\ UNCHANGED group_issued

SchedRollback ==
    /\ SchedBecomes(Group_scheduler_rollback(Sched))
    /\ group_held' = [g \in DOMAIN group_held |-> {}]
    /\ UNCHANGED <<group_issued, group_fixed>>

SchedNext ==
    \/ SetGroups
    \/ SchedIssue
    \/ SchedIssueNone
    \/ SchedFix
    \/ SchedRollback

-----------------------------------------------------------------------------
(* tournaments.Tournament *)

\* the tournament's state as one record
Tourn ==
    [matchups |-> matchups, results |-> results,
     game_id_allocator |-> game_id_allocator,
     outstanding_games |-> outstanding_games]

\* str() of a game id and int() of its string, for ids of one digit
Digits == <<"0", "1", "2", "3", "4", "5", "6", "7", "8", "9">>

str(n) == Digits[n + 1]

int(s) == (CHOOSE i \in 1 .. Len(Digits) : Digits[i] = s) - 1

\* a Matchup as matchup_from_config and initialise_from_control_file leave
\* it: player codes, the settings the scheduling reads, its id, and no
\* game started
Matchup(id, p1, p2, alternating, number_of_games) ==
    [id |-> id, p1 |-> p1, p2 |-> p2, alternating |-> alternating,
     number_of_games |-> number_of_games, games_started |-> 0]

\* the matchups find_match may choose from
available_matchups(ms) ==
    {i \in 1 .. Len(ms) :
        \/ ms[i].number_of_games = None
        \/ ms[i].games_started < The(ms[i].number_of_games)}

\* the black and white player codes for the next game of matchup m
Players_of(m) ==
    IF m.alternating /\ m.games_started % 2 = 1
    THEN <<Some(m.p2), Some(m.p1)>>
    ELSE <<Some(m.p1), Some(m.p2)>>

\* find_match() choosing the first available matchup of the list
find_match_first_listed(ms) ==
    IF available_matchups(ms) = {} THEN <<None, None, None>>
    ELSE LET i == Min(available_matchups(ms))
         IN  <<Some(i), Players_of(ms[i])[1], Players_of(ms[i])[2]>>

\* find_match(): <<index of the matchup in the list, black player code,
\* white player code>>, or three times None
find_match(ms) ==
    IF available_matchups(ms) = {} THEN <<None, None, None>>
    ELSE LET fewest == Min({ms[j].games_started :
                               j \in available_matchups(ms)})
             i == Min({j \in available_matchups(ms) :
                          ms[j].games_started = fewest})
         IN  <<Some(i), Players_of(ms[i])[1], Players_of(ms[i])[2]>>

\* competitions.NoGameAvailable, the value get_game returns in place of a
\* job
NoGameAvailable == [no_game_available |-> TRUE]

\* get_game(): [st, result]; result is NoGameAvailable or the job's
\* game_id, with the matchup id and the player codes it was made from
get_game(t) ==
    LET issued == issue(t.game_id_allocator)
        game_id == str(issued.result)
        found == find_match(t.matchups)
        t1 == [t EXCEPT !.game_id_allocator = issued.st]
    IN  IF found[1] = None
        THEN [st |-> t1, result |-> NoGameAvailable]
        ELSE LET i == The(found[1])
                 entry == <<t.matchups[i].id, The(found[2]), The(found[3])>>
             IN  [st |-> [t1 EXCEPT
                            !.matchups[i].games_started = @ + 1,
                            !.outstanding_games =
                                [k \in DOMAIN @ \cup {game_id} |->
                                    IF k = game_id THEN entry ELSE @[k]]],
                  result |-> [game_id |-> game_id, matchup_id |-> entry[1],
                              player_b |-> entry[2], player_w |-> entry[3]]]

\* process_game_result(response) for the response to the job game_id
process_game_result(t, game_id) ==
    [t EXCEPT
       !.game_id_allocator = fix(@, int(game_id)),
       !.outstanding_games = [k \in DOMAIN @ \ {game_id} |-> @[k]],
       !.results = Append(@, <<t.outstanding_games[game_id][1],
                              [player_b |-> t.outstanding_games[game_id][2],
                               player_w |-> t.outstanding_games[game_id][3]]>>)]

\* the number_of_games settings of a control file, and its lists of one or
\* two matchups between players x and y
NumbersOfGames == {None, Some(-1), Some(0), Some(1), Some(2)}

MatchupLists ==
    {<<Matchup(0, "x", "y", a, n)>> : a \in BOOLEAN, n \in NumbersOfGames}
    \cup {<<Matchup(0, "x", "y", a[1], n[1]),
            Matchup(1, "x", "y", a[2], n[2])>> :
             a \in [1 .. 2 -> BOOLEAN], n \in [1 .. 2 -> NumbersOfGames]}

TournInit ==
    /\ matchups = <<>>
    /\ results = <<>>
    /\ game_id_allocator = New_allocator
    /\ outstanding_games = <<>>
    /\ last_job = None

\* the tournament becomes t
TournBecomes(t) ==
    /\ matchups' = t.matchups
    /\ results' = t.results
    /\ game_id_allocator' = t.game_id_allocator
    /\ outstanding_games' = t.outstanding_games
    /\ UNCHANGED outside_tourn

\* initialise_from_control_file and set_clean_status
InitialiseFromControlFile ==
    /\ matchups = <<>>
    /\ \E ms \in MatchupLists : TournBecomes([Tourn EXCEPT !.matchups = ms])
    /\ UNCHANGED last_job

GetGame ==
    /\ matchups # <<>>
    /\ game_id_allocator.next_new < MaxJobs
    /\ TournBecomes(get_game(Tourn).st)
    /\ last_job' = Some(get_game(Tourn).result)

ProcessGameResult ==
    \E game_id \in DOMAIN outstanding_games :
        /\ TournBecomes(process_game_result(Tourn, game_id))
        /\ UNCHANGED last_job

TournNext ==
    \/ InitialiseFromControlFile
    \/ GetGame
    \/ ProcessGameResult

-----------------------------------------------------------------------------
(* Specifications *)

Init ==
    GtpInit /\ ChanInit /\ AllocInit /\ SgfInit /\ SchedInit /\ TournInit

\* the engine answering commands
Spec == Init /\ [][GtpNext]_vars

\* the engine given komi values over the whole range
SpecKomi == Init /\ [][KomiNext]_vars

\* the engine playing and taking back moves, from the empty board and in
\* the ko fight
SpecMoves == Init /\ [][MovesNext]_vars

\* the engine given handicap stones anywhere on the board
SpecHandicap == Init /\ [][HandicapNext]_vars

\* the engine under fixed_handicap on boards of 2, 3 and 9 lines
SpecFixed == Init /\ [][FixedNext]_vars

\* the engine under loadsgf, play and undo
SpecLoad == Init /\ [][LoadNext]_vars

\* the channel read by get_response_line and get_response_byte
SpecBytes == Init /\ [][BytesNext]_vars

\* the channel with a subprocess that writes diagnostics
SpecDiag == Init /\ [][DiagNext]_vars

\* the channel with failing I/O
SpecFail == Init /\ [][FailNext]_vars

\* the channel and close()
SpecClose == Init /\ [][CloseNext]_vars

\* an Id_allocator and its callers
SpecAlloc == Init /\ [][AllocNext]_vars

\* the engine under the clock commands, resets and genmove
SpecPlace == Init /\ [][PlaceNext]_vars

SpecSavesgf == Init /\ [][SavesgfNext]_vars

SpecSched == Init /\ [][SchedNext]_vars

SpecTourn == Init /\ [][TournNext]_vars

SpecTime == Init /\ [][TimeNext]_vars

\* the channel, its caller and the subprocess
SpecChan == Init /\ [][ChanNext]_vars

\* the same, where a pending get_response_line call takes its next turn
\* of the loop whenever it can: the caller's thread runs, and select()
\* returns once a polled pipe is readable
SpecChanLive ==
    /\ SpecChan
    /\ WF_vars(GetLineReturnsLine)
    /\ WF_vars(GetLineReturnsRemainder)
    /\ WF_vars(GetLineHandlesEvent)

-----------------------------------------------------------------------------
(* Properties of the engine.  A property of a command is stated for every  *)
(* reachable engine state and every argument the controller may give: the  *)
(* command's action installs exactly the outcome the handler computes.     *)

\* the position reached from board b by playing the stones of `moves` in
\* order (passes skipped), or None where one of them cannot be played
RECURSIVE PositionAfter(_, _)
PositionAfter(b, moves) ==
    IF moves = <<>> THEN Some(b)
    ELSE IF Head(moves).coords = None THEN PositionAfter(b, Tail(moves))
    ELSE LET r == BoardPlay(b, The(Head(moves).coords), Head(moves).colour)
         IN  IF r.err # "ok" THEN None
             ELSE PositionAfter(r.board, Tail(moves))

PlayArgs == {None} \cup {Some(p) : p \in VertexArgs}

\* the fields a failed command is said to leave alone
SameEngine(s, t) ==
    /\ s.board_size = t.board_size
    /\ s.board = t.board
    /\ s.history_base = t.history_base
    /\ s.move_history = t.move_history
    /\ s.simple_ko_point = t.simple_ko_point
    /\ s.simple_ko_player = t.simple_ko_player
    /\ s.komi = t.komi
    /\ s.handicap = t.handicap

\* C1: in every reachable state the board is the position obtained from
\* history_base by playing the stones of move_history in order.
C1_BoardIsReplayOfHistory ==
    PositionAfter(history_base, move_history) = Some(board)

\* C2: when the history was built by play and genmove commands, making one
\* more move and undoing it (successfully) gives back the ko point and the
\* ko player that were in force before the move.
C2_UndoRestoresKoState ==
    live_history =>
        \A colour \in Colours :
            /\ \A vertex \in PlayArgs :
                  LET o == handle_play(Cur, colour, vertex)
                      u == handle_undo(o.st)
                  IN  (o.err = "ok" /\ u.err = "ok") =>
                          /\ u.st.simple_ko_point = simple_ko_point
                          /\ u.st.simple_ko_player = simple_ko_player
            /\ \A g \in GenResults :
                  LET o == handle_genmove(Cur, colour, g)
                      u == handle_undo(o.st)
                  IN  (o.err = "ok" /\ o.st.move_history # move_history
                       /\ u.err = "ok") =>
                          /\ u.st.simple_ko_point = simple_ko_point
                          /\ u.st.simple_ko_player = simple_ko_player

\* n undo commands in a row: the engine afterwards, and whether all succeeded
RECURSIVE UndoTimes(_, _)
UndoTimes(s, n) ==
    IF n = 0 THEN [st |-> s, ok |-> TRUE]
    ELSE LET u == handle_undo(s)
         IN  IF u.err # "ok" THEN [st |-> u.st, ok |-> FALSE]
             ELSE UndoTimes(u.st, n - 1)

\* C3: after one or more moves made by play and genmove from a history
\* base, one undo per recorded move succeeds every time and ends with empty
\* move_history and the board equal to history_base; a further undo fails
\* and changes nothing.
C3_UndoAllReturnsToBase ==
    (live_history /\ move_history # <<>>) =>
        LET r == UndoTimes(Cur, Len(move_history))
        IN  /\ r.ok
            /\ r.st.move_history = <<>>
            /\ r.st.board = history_base
            /\ handle_undo(r.st).err = "cannot undo"
            /\ handle_undo(r.st).st = r.st

\* C4: a loadsgf that fails on a move of the file leaves the engine as it
\* was before the command.
C4_LoadsgfBadMoveLeavesEngine ==
    \A file \in SgfFiles : \A k \in MoveNumbers :
        LET o == handle_loadsgf(Cur, file, k)
        IN  o.err = "bad move in file" => SameEngine(o.st, Cur)

\* C5: when loadsgf meets an invalid move, it reports the plain error and
\* history_base and move_history are those of before, unless the previous
\* move_history cannot be replayed from the previous history_base, and only
\* then it reports the "corrupt history" variant.
C5_LoadsgfRestoresHistory ==
    \A file \in SgfFiles : \A k \in MoveNumbers :
        LET o == handle_loadsgf(Cur, file, k)
            restorable == PositionAfter(history_base, move_history) # None
        IN  o.err \in {"bad move in file",
                       "bad move in file and corrupt history"} =>
                IF restorable
                THEN /\ o.err = "bad move in file"
                     /\ o.st.history_base = history_base
                     /\ o.st.move_history = move_history
                ELSE o.err = "bad move in file and corrupt history"

\* C5 witness: a loadsgf fails on a move of the file while the engine holds
\* a base with stones and a history of moves to put back
C5_Witness ==
    /\ move_history # <<>>
    /\ ~BoardIsEmpty(history_base)
    /\ \E file \in SgfFiles : \E k \in MoveNumbers :
          handle_loadsgf(Cur, file, k).err = "bad move in file"

\* C6: a set_free_handicap or place_free_handicap that fails on an occupied
\* vertex leaves board, history_base, move_history, handicap and ko state
\* as they were.
C6_FailedHandicapLeavesEngine ==
    /\ \A args \in SetFreeArgs :
          LET o == handle_set_free_handicap(Cur, args)
          IN  o.err = "engine error: occupied" => SameEngine(o.st, Cur)
    /\ \A n \in 1 .. MaxHandicap : \A gen \in [1 .. n -> PlaceGenResults] :
          LET o == handle_place_free_handicap(Cur, n, gen)
          IN  o.err = "engine error: tried to play" => SameEngine(o.st, Cur)

\* C7: a loadsgf that fails before any replay (unreadable or unparseable
\* file, unacceptable size, bad komi, bad setup data) leaves every field
\* unchanged.
C7_LoadsgfEarlyFailureLeavesEngine ==
    \A file \in SgfFiles : \A k \in MoveNumbers :
        LET o == handle_loadsgf(Cur, file, k)
        IN  o.err \in {"cannot load file", "unacceptable size", "bad komi",
                       "bad setup"} => SameEngine(o.st, Cur)

-----------------------------------------------------------------------------
(* Properties of the channel *)

\* a value returned at end of file for want of a newline
IsRemainder(r) == r.seen_eof /\ FindNewline(r.line) = 0

IsPrefix(s, w) == Len(s) <= Len(w) /\ SubSeq(w, 1, Len(s)) = s

ReturnedLines(k) == [i \in 1 .. k |-> returned[i].line]

\* the calls up to and including the first that returned a remainder
ThroughFirstRemainder ==
    IF \E i \in 1 .. Len(returned) : IsRemainder(returned[i])
    THEN CHOOSE i \in 1 .. Len(returned) :
             /\ IsRemainder(returned[i])
             /\ \A j \in 1 .. i - 1 : ~IsRemainder(returned[j])
    ELSE Len(returned)

\* C8: once a get_response_line call has returned a non-empty unterminated
\* remainder at end of stream, every later call returns the empty string.
C8_RemainderDeliveredOnce ==
    \A i \in 1 .. Len(returned) : \A j \in 1 .. Len(returned) :
        (i < j /\ IsRemainder(returned[i]) /\ returned[i].line # <<>>) =>
            returned[j].line = <<>>

\* C9: however the subprocess's output is cut into reads and mixed with
\* diagnostic output, every value get_response_line returns before end of
\* stream ends with a newline and holds no other newline; the values
\* returned, in call order, up to the first remainder make up a prefix of
\* the bytes the subprocess wrote to its standard output; and no returned
\* value holds a diagnostic byte.
C9_LinesAreWhatThePeerWrote ==
    /\ \A i \in 1 .. Len(returned) :
          ~returned[i].seen_eof =>
              /\ returned[i].line # <<>>
              /\ FindNewline(returned[i].line) = Len(returned[i].line)
    /\ IsPrefix(Join(ReturnedLines(ThroughFirstRemainder)), response_written)
    /\ \A i \in 1 .. Len(returned) : \A n \in 1 .. Len(returned[i].line) :
          returned[i].line[n] \in ResponseBytes

\* two lines came back before end of stream, the second put together from
\* more than one read, with diagnostic output read in between
C9_Witness ==
    /\ Len(returned) >= 2
    /\ ~returned[2].seen_eof
    /\ Len(returned[2].line) >= 2
    /\ error_data # <<>>
    /\ response_pipe # <<>>

\* the subprocess has ended its standard output, or a newline is on its way
\* to the caller
ResponseWillEndLine ==
    response_closed \/ FindNewline(response_data \o response_pipe) # 0

\* C10: a pending get_response_line call returns in the end if the
\* subprocess in the end writes a newline to its standard output or closes
\* it, whatever its standard error does meanwhile.
C10_PendingCallReturns ==
    (pc = "line" /\ <>ResponseWillEndLine) ~> (pc = "idle")

\* a call has returned a line after the diagnostic stream gave data and
\* ended, with the response stream still open
C10_Witness ==
    /\ pc = "idle"
    /\ returned # <<>>
    /\ error_data # <<>>
    /\ "error" \notin pipes_to_poll
    /\ ~response_closed

-----------------------------------------------------------------------------
(* Properties of the engine: komi *)

\* floor of a finite value, from its definition: the integer k with
\* k <= halves / 2 < k + 1
FloorTable ==
    [h \in {f.halves : f \in WideKomiArgs
                              \cup {The(file.komi) :
                                       file \in {g \in KomiSgfFiles
                                                      \cup SgfFiles :
                                                    g.komi # None}}} |->
        CHOOSE k \in -MaxKomiHalves .. MaxKomiHalves :
            2 * k <= h /\ h < 2 * (k + 1)]

FloorOf(f) == FloorTable[f.halves]

\* the komi the specification stores for the argument f (not NaN)
ClampedFloor(f) ==
    IF f = PosInf THEN 625
    ELSE IF f = NegInf THEN -625
    ELSE IF FloorOf(f) < -625 THEN -625
    ELSE IF FloorOf(f) > 625 THEN 625
    ELSE FloorOf(f)

\* C11: komi is 0 at first and an integer in [-625, 625] in every reachable
\* state; after komi(f), and after a successful loadsgf of a record with
\* komi f, it is floor(f) clamped to [-625, 625], with 625 for positive and
\* -625 for negative infinity.
C11_KomiIsClampedFloor ==
    /\ no_command_yet => komi = 0
    /\ komi \in -625 .. 625
    /\ \A f \in WideKomiArgs \ {NaN} :
          /\ handle_komi(Cur, f).err = "ok"
          /\ handle_komi(Cur, f).st.komi = ClampedFloor(f)
    /\ \A file \in KomiSgfFiles \cup SgfFiles : \A k \in MoveNumbers :
          LET o == handle_loadsgf(Cur, file, k)
          IN  o.err = "ok" => o.st.komi = ClampedFloor(The(file.komi))

\* a record with komi -6.5 was loaded: komi is -7, and a move is in the
\* history
C11_Witness == komi = -7 /\ move_history # <<>>

\* C12: for every non-finite argument (the infinities and NaN) the komi
\* command ends without an error and stores a value in [-625, 625].
C12_NonFiniteKomiAccepted ==
    \A f \in {PosInf, NegInf, NaN} :
        /\ handle_komi(Cur, f).err = "ok"
        /\ handle_komi(Cur, f).st.komi \in -625 .. 625

-----------------------------------------------------------------------------
(* Properties of the engine: handicap *)

\* the points the generator names in calls i .. n, in call order
RECURSIVE MovesNamed(_, _, _)
MovesNamed(gen, i, n) ==
    IF i > n THEN <<>>
    ELSE IF gen[i].pass_move \/ gen[i].resign THEN MovesNamed(gen, i + 1, n)
    ELSE <<The(gen[i].move)>> \o MovesNamed(gen, i + 1, n)

StonesOn(b) == {p \in Points(b.side) : b.pts[p] # "e"}

\* C13: whatever the generator answers, a successful place_free_handicap(n)
\* places at most n stones, and at most one fewer than the maximum where n
\* is the maximum for the board; it places one stone for each generator call
\* that named a move and none for a pass or a resignation, never on an
\* occupied point; and it returns the placed vertices in the order they
\* were placed, all distinct.
C13_PlaceFreeHandicapStones ==
    BoardIsEmpty(board) =>
        \A n \in 1 .. MaxHandicap :
            \A gen \in [1 .. n -> WidePlaceGenResults(board_size)] :
                LET o == handle_place_free_handicap(Cur, n, gen)
                    max_points == board_size * board_size - 1
                    calls == IF n = max_points THEN n - 1 ELSE n
                    placed == o.res.vertices
                IN  o.err = "ok" =>
                        /\ Len(placed) <= n
                        /\ n = max_points => Len(placed) <= max_points - 1
                        /\ placed = MovesNamed(gen, 1, calls)
                        /\ \A i \in 1 .. Len(placed) :
                              \A j \in 1 .. Len(placed) :
                                  i # j => placed[i] # placed[j]
                        /\ StonesOn(o.st.board)
                               = {placed[i] : i \in 1 .. Len(placed)}
                        /\ \A p \in StonesOn(o.st.board) :
                              o.st.board.pts[p] = "b"

\* place_free_handicap 3 on the 2x2 board, where 3 is the maximum, has put
\* two stones down
C13_Witness ==
    /\ board_size = 2
    /\ handicap = Some(2)
    /\ move_history = <<>>
    /\ Cardinality(StonesOn(board)) = 2
    /\ board = history_base

\* C14: after a successful fixed_handicap, set_free_handicap or
\* place_free_handicap the handicap field is the number of handicap stones
\* the command put on the board.
C14_HandicapCountsStones ==
    /\ \A n \in 2 .. 3 :
          LET o == handle_fixed_handicap(Cur, n)
          IN  o.err = "ok" =>
                  o.st.handicap = Some(Cardinality(StonesOn(o.st.board))
                                       - Cardinality(StonesOn(board)))
    /\ \A args \in SetFreeArgs :
          LET o == handle_set_free_handicap(Cur, args)
          IN  o.err = "ok" =>
                  o.st.handicap = Some(Cardinality(StonesOn(o.st.board))
                                       - Cardinality(StonesOn(board)))
    /\ BoardIsEmpty(board) =>
          \A n \in 1 .. MaxHandicap :
              \A gen \in [1 .. n -> WidePlaceGenResults(board_size)] :
                  LET o == handle_place_free_handicap(Cur, n, gen)
                  IN  o.err = "ok" =>
                          o.st.handicap = Some(Len(o.res.vertices))

-----------------------------------------------------------------------------
(* Properties of the engine: play and genmove *)

\* the stones of the other colour that play(colour, p) takes off the board
CapturedBy(s, colour, p) ==
    {q \in Points(s.board.side) :
        /\ s.board.pts[q] = opponent_of(colour)
        /\ handle_play(s, colour, Some(p)).st.board.pts[q] = "e"}

\* the ko point each genmove command hands the generator for colour c
KoPointsGiven(s, c) ==
    {genmove_game_state(s, c).ko_point,
     genmove_claim_game_state(s, c).ko_point,
     reg_genmove_game_state(s, c).ko_point}

\* C15 as stated: after a play by colour X that captures a single stone,
\* genmove for the opponent of X is given the captured point as ko_point
\* and genmove for X is given none.
C15_SingleStoneCaptureGivesKoPoint ==
    \A X \in Colours : \A p \in Points(board_size) :
        LET o == handle_play(Cur, X, Some(p))
            captured == CapturedBy(Cur, X, p)
        IN  (o.err = "ok" /\ Cardinality(captured) = 1) =>
                /\ KoPointsGiven(o.st, opponent_of(X)) = {captured}
                /\ KoPointsGiven(o.st, X) = {None}

\* C15, amended: every genmove, genmove_claim or reg_genmove call for colour
\* c gives the generator ko_point = simple_ko_point when a ko ban exists and
\* simple_ko_player is c, and none otherwise; after a play by colour X that
\* captures a single stone and for which the board reports a forbidden
\* point, that point is the captured point, genmove for the opponent of X
\* is given it and genmove for X is given none; after a single-stone
\* capture for which the board reports no forbidden point both are given
\* none.
C15_KoPointGivenToBannedColour ==
    /\ \A c \in Colours :
          KoPointsGiven(Cur, c) =
              {IF simple_ko_point # None /\ simple_ko_player = Some(c)
               THEN simple_ko_point ELSE None}
    /\ \A X \in Colours : \A p \in Points(board_size) :
          LET o == handle_play(Cur, X, Some(p))
              captured == CapturedBy(Cur, X, p)
          IN  (o.err = "ok" /\ Cardinality(captured) = 1) =>
                  IF BoardPlay(board, p, X).ko # None
                  THEN /\ BoardPlay(board, p, X).ko = captured
                       /\ KoPointsGiven(o.st, opponent_of(X)) = {captured}
                       /\ KoPointsGiven(o.st, X) = {None}
                  ELSE /\ KoPointsGiven(o.st, opponent_of(X)) = {None}
                       /\ KoPointsGiven(o.st, X) = {None}

\* white has just taken the ko at B1 with a play at A1: black is banned
\* from B1
C15_Witness ==
    /\ move_history # <<>>
    /\ move_history[Len(move_history)].colour = "w"
    /\ move_history[Len(move_history)].coords = Some(<<0, 0>>)
    /\ simple_ko_point = Some(<<0, 1>>)
    /\ simple_ko_player = Some("b")
    /\ KoPointsGiven(Cur, "b") = {Some(<<0, 1>>)}

\* every field of the engine, the time fields included
WholeEngineSame(s, t) ==
    /\ SameEngine(s, t)
    /\ s.time_settings = t.time_settings
    /\ s.time_status = t.time_status

\* C16: reg_genmove changes nothing: whatever the generator answers (a
\* move, a pass, a resignation, a claim, a move on an occupied point) board,
\* history_base, move_history, ko state, komi, handicap and the time fields
\* are afterwards as before, and the generator is given for_regression
\* true.
C16_RegGenmoveChangesNothing ==
    \A c \in Colours :
        /\ reg_genmove_game_state(Cur, c).for_regression = TRUE
        /\ \A g \in AnyGenResults(board_size) :
              /\ WholeEngineSame(handle_reg_genmove(Cur, c, g).st, Cur)
              /\ handle_reg_genmove(Cur, c, g).err = "ok"

\* reg_genmove answers A1 where A1 is occupied, with moves in the history
\* and a ko ban in force
C16_Witness ==
    /\ move_history # <<>>
    /\ simple_ko_point # None
    /\ board.pts[<<0, 0>>] # "e"
    /\ handle_reg_genmove(
           Cur, "b",
           Generated(FALSE, FALSE, Some(<<0, 0>>), FALSE, None, None)).res
         = Vertices(<< <<0, 0>> >>)

KoAndHistorySame(s, t) ==
    /\ s.board = t.board
    /\ s.move_history = t.move_history
    /\ s.simple_ko_point = t.simple_ko_point
    /\ s.simple_ko_player = t.simple_ko_player

\* C17: genmove_claim given an answer with the claim flag returns 'claim'
\* and leaves board, move_history and ko state alone although the answer
\* carries a move or a pass; every genmove command given a resignation
\* returns 'resign' and changes nothing; genmove and reg_genmove take no
\* notice of the claim flag and never return 'claim'.
C17_ClaimAndResignChangeNothing ==
    \A c \in Colours : \A g \in AnyGenResults(board_size) :
        /\ g.claim =>
              /\ handle_genmove_claim(Cur, c, g).res = Word("claim")
              /\ handle_genmove_claim(Cur, c, g).err = "ok"
              /\ KoAndHistorySame(handle_genmove_claim(Cur, c, g).st, Cur)
        /\ g.resign =>
              \A o \in {handle_genmove(Cur, c, g),
                        handle_genmove_claim(Cur, c, g),
                        handle_reg_genmove(Cur, c, g)} :
                  /\ o.res = Word("resign")
                  /\ o.err = "ok"
                  /\ WholeEngineSame(o.st, Cur)
        /\ handle_genmove(Cur, c, g)
               = handle_genmove(Cur, c, [g EXCEPT !.claim = FALSE])
        /\ handle_reg_genmove(Cur, c, g)
               = handle_reg_genmove(Cur, c, [g EXCEPT !.claim = FALSE])
        /\ handle_genmove(Cur, c, g).res # Word("claim")
        /\ handle_reg_genmove(Cur, c, g).res # Word("claim")

\* genmove_claim is told 'B2, and I claim a win' with B2 empty and moves
\* in the history: it answers claim
C17_Witness ==
    /\ move_history # <<>>
    /\ board.pts[<<1, 1>>] = "e"
    /\ handle_genmove_claim(
           Cur, "w",
           Generated(FALSE, FALSE, Some(<<1, 1>>), TRUE, None, None)).res
         = Word("claim")

\* C18: a play command, or a genmove whose generated point is occupied,
\* that fails because the board rejects the stone leaves board,
\* move_history, simple_ko_point and simple_ko_player as they were and
\* appends nothing to the history.
C18_RejectedMoveChangesNothing ==
    \A c \in Colours :
        /\ \A p \in Points(board_size) :
              LET o == handle_play(Cur, c, Some(p))
              IN  /\ (p \in Points(board.side) /\ board.pts[p] # "e") =>
                         o.err = "illegal move"
                  /\ o.err # "ok" => KoAndHistorySame(o.st, Cur)
        /\ \A g \in AnyGenResults(board_size) :
              \A o \in {handle_genmove(Cur, c, g),
                        handle_genmove_claim(Cur, c, g)} :
                  /\ (g.move # None /\ The(g.move) \in Points(board.side)
                      /\ board.pts[The(g.move)] # "e"
                      /\ o.res # Word("claim")) =>
                         o.err = "engine error: tried to play"
                  /\ o.err # "ok" => KoAndHistorySame(o.st, Cur)

\* a play on the occupied point A1 is rejected while a ko ban is in force
C18_Witness ==
    /\ simple_ko_point # None
    /\ move_history # <<>>
    /\ handle_play(Cur, "b", Some(<<0, 0>>)).err = "illegal move"

\* C19: a successful play of a stone appends one entry (the colour and the
\* point, no comment, no cookie) to the end of move_history, sets
\* simple_ko_point to the point the board reports as forbidden, or none, and
\* simple_ko_player to the opponent of the mover; a play of pass appends one
\* pass entry, sets simple_ko_point to none and leaves the board as it is.
C19_PlayRecordsMoveAndKo ==
    \A c \in Colours :
        /\ \A p \in Points(board_size) :
              LET o == handle_play(Cur, c, Some(p))
              IN  o.err = "ok" =>
                      /\ o.st.move_history =
                             Append(move_history,
                                    [colour |-> c, coords |-> Some(p),
                                     comments |-> None, cookie |-> None])
                      /\ o.st.board = BoardPlay(board, p, c).board
                      /\ o.st.simple_ko_point = BoardPlay(board, p, c).ko
                      /\ o.st.simple_ko_player = Some(opponent_of(c))
        /\ LET o == handle_play(Cur, c, None)
           IN  /\ o.err = "ok"
               /\ o.st.move_history =
                      Append(move_history,
                             [colour |-> c, coords |-> None,
                              comments |-> None, cookie |-> None])
               /\ o.st.simple_ko_point = None
               /\ o.st.board = board

\* white took the ko at B1 by a play at A1 and black has passed: the ban is
\* lifted, the stone is still off the board
C19_Witness ==
    /\ Len(move_history) = 2
    /\ move_history[1] = [colour |-> "w", coords |-> Some(<<0, 0>>),
                          comments |-> None, cookie |-> None]
    /\ move_history[2] = [colour |-> "b", coords |-> None,
                          comments |-> None, cookie |-> None]
    /\ simple_ko_point = None
    /\ simple_ko_player = Some("b")
    /\ history_base.pts[<<0, 1>>] = "b"
    /\ board.pts[<<0, 1>>] = "e"

AllButLast(seq) == SubSeq(seq, 1, Len(seq) - 1)

\* C20: a successful undo removes the last entry of move_history and no
\* other: the entries left are the same entries in the same order, colour,
\* coords, comments and cookie unchanged, and history_base, komi, handicap
\* and the time fields are unchanged; the comments and the cookie the
\* generator gave with a genmove are recorded with the move and are still
\* there after a later move and its undo.
C20_UndoRemovesLastEntryOnly ==
    /\ LET u == handle_undo(Cur)
       IN  u.err = "ok" =>
               /\ u.st.move_history = AllButLast(move_history)
               /\ u.st.history_base = history_base
               /\ u.st.komi = komi
               /\ u.st.handicap = handicap
               /\ u.st.time_settings = time_settings
               /\ u.st.time_status = time_status
    /\ \A c \in Colours : \A g \in AnyGenResults(board_size) :
          LET o == handle_genmove(Cur, c, g)
          IN  (o.err = "ok" /\ ~g.resign) =>
                  /\ o.st.move_history =
                         Append(move_history,
                                [colour |-> c, coords |-> g.move,
                                 comments |-> g.comments,
                                 cookie |-> g.cookie])
                  /\ \A d \in Colours : \A v \in PlayArgs :
                        LET q == handle_play(o.st, d, v)
                            u == handle_undo(q.st)
                        IN  (q.err = "ok" /\ u.err = "ok") =>
                                u.st.move_history = o.st.move_history

\* two moves are in the history, the first made by genmove with a comment
\* and a cookie, the second by play
C20_Witness ==
    /\ Len(move_history) = 2
    /\ move_history[1].cookie = Some("k1")
    /\ move_history[1].comments = Some("why")
    /\ move_history[2].cookie = None
    /\ handle_undo(Cur).err = "ok"

-----------------------------------------------------------------------------
(* boardsize and clear_board *)

\* t is s after a full reset at size n: nothing on the board, no history, no
\* ko ban, no handicap; komi and the clock are those of s
FullResetOf(s, t, n) ==
    /\ t.board_size = n
    /\ t.board = Board(n)
    /\ t.history_base = Board(n)
    /\ t.move_history = <<>>
    /\ t.simple_ko_point = None
    /\ t.handicap = None
    /\ t.komi = s.komi
    /\ t.time_settings = s.time_settings
    /\ t.time_status = s.time_status

\* C21: boardsize with a size that is not acceptable fails and changes
\* nothing; boardsize with an acceptable size, and clear_board, leave an empty
\* board of that size, an empty history base, no moves, no ko ban and no
\* handicap, and keep komi, time_settings and time_status.
C21_BoardsizeAndClearBoardReset ==
    /\ \A n \in SizeArgs :
          LET o == handle_boardsize(Cur, n)
          IN  IF n \in AcceptableSizes
              THEN o.err = "ok" /\ FullResetOf(Cur, o.st, n)
              ELSE o.err # "ok" /\ o.st = Cur
    /\ LET o == handle_clear_board(Cur)
       IN  o.err = "ok" /\ FullResetOf(Cur, o.st, board_size)

\* a handicap game with a ko ban, a move, a komi and both clocks set: all of
\* it is there for the reset to clear or to keep
C21_Witness ==
    /\ simple_ko_point # None
    /\ handicap # None
    /\ move_history # <<>>
    /\ ~BoardIsEmpty(history_base)
    /\ komi # 0
    /\ time_settings # None
    /\ time_status["b"] = <<Some(30), Some(5)>>
    /\ time_status["w"] = <<Some(30), None>>

-----------------------------------------------------------------------------
(* time_left, time_settings and what genmove tells the move generator *)

\* the three Game_states a move generator can be given for this colour
GameStatesFor(s, colour) ==
    {genmove_game_state(s, colour), genmove_claim_game_state(s, colour),
     reg_genmove_game_state(s, colour)}

\* the move generator is given the time settings of s and the clock of this
\* colour
GivenClockOf(s, colour) ==
    \A gs \in GameStatesFor(s, colour) :
        /\ gs.time_settings = s.time_settings
        /\ gs.time_remaining = s.time_status[colour][1]
        /\ gs.canadian_stones_remaining = s.time_status[colour][2]

\* C28: time_left sets the clock of its colour to (time, stones), a stones
\* value of 0 stored as unset, and leaves the other colour's clock as it was;
\* time_settings stores its three numbers as given; genmove for a colour
\* gives the move generator the stored time settings and that colour's time
\* and stones only.
C28_ClockStoredAndPassedOn ==
    /\ \A c \in Colours : GivenClockOf(Cur, c)
    /\ \A c \in Colours : \A t \in WideTimeArgs : \A n \in WideTimeArgs :
          LET o == handle_time_left(Cur, c, t, n)
          IN  /\ o.err = "ok"
              /\ o.st.time_status[c] =
                     <<Some(t), IF n = 0 THEN None ELSE Some(n)>>
              /\ o.st.time_status[opponent_of(c)] =
                     time_status[opponent_of(c)]
              /\ o.st = [Cur EXCEPT !.time_status = o.st.time_status]
              /\ \A d \in Colours : GivenClockOf(o.st, d)
              /\ \A gs \in GameStatesFor(o.st, opponent_of(c)) :
                    /\ gs.time_remaining = time_status[opponent_of(c)][1]
                    /\ gs.canadian_stones_remaining =
                           time_status[opponent_of(c)][2]
    /\ \A m \in WideTimeArgs : \A b \in WideTimeArgs : \A n \in WideTimeArgs :
          LET o == handle_time_settings(Cur, m, b, n)
          IN  /\ o.err = "ok"
              /\ o.st.time_settings = Some(<<m, b, n>>)
              /\ o.st = [Cur EXCEPT !.time_settings = o.st.time_settings]
              /\ \A d \in Colours : GivenClockOf(o.st, d)

\* the two colours have different clocks, the time settings are known and a
\* genmove has been answered since
C28_Witness ==
    /\ time_status["b"] = <<Some(30), None>>
    /\ time_status["w"] = <<Some(30), Some(5)>>
    /\ time_settings = Some(<<60, 30, 5>>)
    /\ move_history # <<>>
    /\ board_size = 2

-----------------------------------------------------------------------------
(* fixed_handicap *)

\* every engine reached from s by at most n successful play commands, with
\* the number of plays made
RECURSIVE PlaysFrom(_, _)
PlaysFrom(s, n) ==
    IF n = 0 THEN {[st |-> s, made |-> 0]}
    ELSE {[st |-> s, made |-> 0]} \cup
         UNION {LET o == handle_play(s, c, v)
                IN  IF o.err # "ok" THEN {}
                    ELSE {[st |-> r.st, made |-> r.made + 1] :
                             r \in PlaysFrom(o.st, n - 1)} :
                c \in Colours, v \in HandicapPlayArgs}

\* fixed_handicap(n) is to fail in state s
FixedHandicapRefused(s, n) ==
    \/ ~BoardIsEmpty(s.board)
    \/ n < 2
    \/ n > max_fixed_handicap_for_board_size(s.board_size)

\* t is the state a successful fixed_handicap(n) is to leave after s
FixedHandicapPlaced(s, t, n) ==
    LET standard == {handicap_points(n, s.board_size).points[i] : i \in 1 .. n}
    IN  /\ \A p \in Points(t.board.side) :
              t.board.pts[p] = IF p \in standard THEN "b" ELSE "e"
        /\ standard \subseteq Points(t.board.side)
        /\ t.history_base = t.board
        /\ t.move_history = <<>>
        /\ t.simple_ko_point = None
        /\ t.handicap = Some(n)
        /\ \A r \in PlaysFrom(t, 2) :
              LET u == UndoTimes(r.st, r.made)
              IN  u.ok /\ u.st = t

\* C22: fixed_handicap(n) fails and changes nothing when the board is not
\* empty or n is outside the range for the board size; otherwise it leaves
\* the n standard points, and no others, black, history_base equal to that
\* position, no moves, no ko ban and handicap n, and any plays followed by as
\* many undos come back to that state.
C22_FixedHandicap ==
    \A n \in FixedHandicapArgs :
        LET o == handle_fixed_handicap(Cur, n)
        IN  IF FixedHandicapRefused(Cur, n)
            THEN o.err # "ok" /\ o.st = Cur
            ELSE o.err = "ok" /\ FixedHandicapPlaced(Cur, o.st, n)

\* the same where the board has as many lines as board_size says
C22_FixedHandicapOnBoardOfItsSize ==
    board.side = board_size => C22_FixedHandicap

\* an empty 9x9 board, where fixed_handicap(5) places five stones
C22_Witness ==
    /\ board_size = 9
    /\ board = Board(9)
    /\ handle_fixed_handicap(Cur, 5).err = "ok"
    /\ handle_fixed_handicap(Cur, 5).st.board.pts[<<4,4>>] = "b"

-----------------------------------------------------------------------------
(* loadsgf, when it succeeds *)

\* every game record, and every move_number, a loadsgf is tried with
AllSgfFiles == SgfFiles \cup KoSgfFiles \cup KomiSgfFiles \cup HandicapKoSgfFiles

WideMoveNumbers == MoveNumbers \cup {Some(-1), Some(MaxMoveNumber + 2)}

\* the moves of a game record as history entries
MovesOf(file) ==
    [i \in 1 .. Len(file.moves) |->
        [colour |-> file.moves[i][1], coords |-> file.moves[i][2],
         comments |-> None, cookie |-> None]]

\* the moves a loadsgf with this move_number is to install: all of them, or
\* the first max(0, k - 1)
MovesBefore(file, move_number) ==
    LET M == MovesOf(file)
        k == IF move_number = None THEN Len(M) ELSE The(move_number) - 1
        n == IF k < 0 THEN 0 ELSE IF k > Len(M) THEN Len(M) ELSE k
    IN  [i \in 1 .. n |-> M[i]]

\* t is the engine after a successful loadsgf, komi apart
LoadedFrom(t, file, move_number) ==
    /\ t.move_history = MovesBefore(file, move_number)
    /\ t.history_base = The(file.setup)
    /\ PositionAfter(The(file.setup), MovesBefore(file, move_number))
           = Some(t.board)
    /\ t.board_size = file.size
    /\ t.handicap = IF file.handicap_ok THEN file.handicap ELSE None

-----------------------------------------------------------------------------
(* get_response_byte *)

\* the entries of `returned` that get_response_byte made
ByteCallsAt == {r.at : r \in byte_returns}

\* the calls up to end-of-stream: up to and including the first
\* get_response_line that returned a remainder
UpToEndOfStream ==
    LET ends == {i \in 1 .. Len(returned) :
                    i \notin ByteCallsAt /\ IsRemainder(returned[i])}
    IN  IF ends = {} THEN Len(returned)
        ELSE CHOOSE i \in ends : \A j \in ends : i <= j

\* C26: get_response_byte returns exactly one byte, the first of the
\* buffer, whenever the buffer holds one, and the empty string exactly when
\* end-of-stream has been seen and the buffer is empty; the values returned
\* by get_response_line and get_response_byte calls up to end-of-stream,
\* joined in call order, are a prefix of what the subprocess wrote to its
\* standard output.
C26_BytesAndLinesAreWhatThePeerWrote ==
    /\ \A r \in byte_returns :
          /\ r.at \in 1 .. Len(returned)
          /\ IF r.buffered # <<>>
             THEN returned[r.at].line = <<r.buffered[1]>>
             ELSE returned[r.at].line = <<>> /\ returned[r.at].seen_eof
    /\ IsPrefix(Join(ReturnedLines(UpToEndOfStream)), response_written)

\* a byte, then a line of two bytes, then a byte again: all four bytes the
\* subprocess wrote
C26_Witness ==
    /\ Len(returned) = 3
    /\ ByteCallsAt = {1, 3}
    /\ Len(returned[2].line) = 2
    /\ Join(ReturnedLines(3)) = response_written
    /\ Len(response_written) = MaxResponse

-----------------------------------------------------------------------------
(* retrieve_diagnostics *)

DiagTexts == [i \in 1 .. Len(diag_returned) |-> diag_returned[i].text]

\* the diagnostic bytes the channel had read when the i-th call was made
DrainedAt(i) == IF i = 0 THEN 0 ELSE diag_returned[i].drained

\* C25: each retrieve_diagnostics call returns, in the order written, the
\* diagnostic bytes the channel read during get_response_line and
\* get_response_byte calls since the previous call, so that a call with no
\* read since the previous one returns the empty string; what the calls
\* returned, joined, is a prefix of what the subprocess wrote to its
\* standard error; and the call reads nothing: every byte written is either
\* returned, held for the next call, or still in the pipe.
C25_DiagnosticsReturnedOnce ==
    /\ \A i \in 1 .. Len(diag_returned) :
          /\ DrainedAt(i - 1) <= DrainedAt(i)
          /\ DrainedAt(i) <= Len(diag_written)
          /\ diag_returned[i].text =
                 SubSeq(diag_written, DrainedAt(i - 1) + 1, DrainedAt(i))
    /\ IsPrefix(Join(DiagTexts), diag_written)
    /\ Join(DiagTexts) \o Join(error_data) \o error_pipe = diag_written

\* three calls: the first returned one byte, the second, with nothing read
\* in between, the empty string, the third the other byte
C25_Witness ==
    /\ Len(diag_returned) = 3
    /\ diag_returned[1].text = <<"x">>
    /\ diag_returned[2].text = <<>>
    /\ diag_returned[3].text = <<"y">>
    /\ returned # <<>>

-----------------------------------------------------------------------------
(* close() *)

FailedCloseSteps ==
    {close_attempted[i].step :
        i \in {j \in 1 .. Len(close_attempted) : close_attempted[j].failed}}

\* the exceptions close() has raised
CloseRaised == SelectSeq(raised, LAMBDA r : r.call = "close")

\* C24: close() attempts its three steps, closing the command stream,
\* closing the response stream and waiting for the process, in that order
\* whichever of them fail; it raises one GtpTransportError, with a message
\* for every failed step and for no other, exactly when a step failed; and
\* when the wait succeeds exit_status and resource_usage are recorded
\* whether or not a close failed.
C24_CloseAttemptsEveryStep ==
    /\ Len(close_attempted) <= Len(CloseSteps)
    /\ \A i \in 1 .. Len(close_attempted) :
          close_attempted[i].step = CloseSteps[i]
    /\ pc # "closed" => CloseRaised = <<>>
    /\ pc = "closed" =>
          /\ Len(close_attempted) = Len(CloseSteps)
          /\ Len(CloseRaised) = IF FailedCloseSteps = {} THEN 0 ELSE 1
          /\ \A i \in 1 .. Len(CloseRaised) :
                /\ CloseRaised[i].exception = "GtpTransportError"
                /\ {StepOfMessage(CloseRaised[i].message[n]) :
                       n \in 1 .. Len(CloseRaised[i].message)}
                       = FailedCloseSteps
          /\ ~close_attempted[Len(CloseSteps)].failed =>
                exit_status # None /\ resource_usage # None
          /\ close_attempted[Len(CloseSteps)].failed =>
                exit_status = None /\ resource_usage = None

\* both closes failed and the wait succeeded, after a line had been read
C24_Witness ==
    /\ pc = "closed"
    /\ FailedCloseSteps = {"command_pipe", "response_pipe"}
    /\ exit_status # None
    /\ Len(CloseRaised) = 1
    /\ returned # <<>>

-----------------------------------------------------------------------------
(* I/O failures *)

TransportFailures == {"GtpChannelClosed", "GtpTransportError"}

\* C27: every I/O failure inside send_command_line, get_response_line or
\* get_response_byte reaches the caller as a transport failure:
\* GtpChannelClosed for a broken pipe while sending, GtpTransportError for
\* every other failure while sending, waiting or reading.
C27_IOFailuresAreTransportFailures ==
    \A i \in 1 .. Len(raised) :
        raised[i].call \in {"send", "line", "byte"} =>
            /\ raised[i].exception \in TransportFailures
            /\ raised[i].exception =
                   IF raised[i].call = "send" /\ raised[i].failure = "EPIPE"
                   THEN "GtpChannelClosed"
                   ELSE "GtpTransportError"

\* the same, for every failure but that of the wait
C27_WriteAndReadFailuresAreTransportFailures ==
    \A i \in 1 .. Len(raised) :
        (raised[i].call \in {"send", "line", "byte"}
         /\ raised[i].failure # "select") =>
            /\ raised[i].exception \in TransportFailures
            /\ raised[i].exception =
                   IF raised[i].call = "send" /\ raised[i].failure = "EPIPE"
                   THEN "GtpChannelClosed"
                   ELSE "GtpTransportError"

\* a send met a broken pipe and a get_response_byte a failed wait
C27_Witness ==
    /\ \E i \in 1 .. Len(raised) :
          raised[i].call = "send" /\ raised[i].failure = "EPIPE"
    /\ \E i \in 1 .. Len(raised) :
          raised[i].call = "byte" /\ raised[i].failure = "select"

-----------------------------------------------------------------------------
(* Id_allocator *)

\* the ids issued and not fixed that issue() has not returned again since
\* the last rollback
DueAgain == (issued_ids \ fixed_ids) \ {since_rollback[i] :
                                           i \in 1 .. Len(since_rollback)}

\* the smallest id never issued
FirstNewId == Min((0 .. MaxIds) \ issued_ids)

\* the ids issued since the last rollback and not fixed
HeldIds == {since_rollback[i] : i \in 1 .. Len(since_rollback)} \ fixed_ids

\* C29: after rollback() the ids issued and not fixed are returned again by
\* issue(), smallest first and before any id never issued; a fixed id is
\* never returned again; and with no rollback issue() returns 0, 1, 2, ...
C29_IssueOrder ==
    /\ issue(Alloc).result = IF DueAgain # {} THEN Min(DueAgain)
                             ELSE FirstNewId
    /\ issue(Alloc).result \notin fixed_ids
    /\ \A i \in 1 .. Len(since_rollback) : \A j \in 1 .. Len(since_rollback) :
          i < j => since_rollback[i] < since_rollback[j]
    /\ ~rolled_back =>
          since_rollback = [i \in 1 .. Len(since_rollback) |-> i - 1]

\* ids 0 to 3 were issued, 1 was fixed, and since a rollback 0 has been
\* returned again: 2 and 3 are due before 4
C29_Witness ==
    /\ rolled_back
    /\ issued_ids = 0 .. 3
    /\ fixed_ids = {1}
    /\ since_rollback = <<0>>
    /\ issue(Alloc).result = 2

\* C30: count_fixed() is the number of ids fixed so far, count_issued() the
\* number fixed plus the number now outstanding, and straight after
\* rollback() the two are equal.
C30_CountsOfIssuedAndFixed ==
    /\ count_fixed(Alloc) = Cardinality(fixed_ids)
    /\ count_issued(Alloc) = Cardinality(fixed_ids) + Cardinality(HeldIds)
    /\ outstanding = HeldIds
    /\ count_issued(rollback(Alloc)) = count_fixed(rollback(Alloc))
    /\ count_fixed(rollback(Alloc)) = Cardinality(fixed_ids)

\* two ids fixed, one outstanding and one waiting to be issued again
C30_Witness ==
    /\ Cardinality(fixed_ids) = 2
    /\ Cardinality(outstanding) = 1
    /\ Cardinality(to_reissue) = 1
    /\ count_issued(Alloc) = 3

\* C40: every id below next_new is in exactly one of the fixed ids, the
\* outstanding ids and the ids to reissue, none of these holds an id from
\* next_new on, and issue() returns an id that is neither outstanding nor
\* fixed, before and after a rollback.
C40_IdsArePartitioned ==
    /\ \A i \in 0 .. next_new - 1 :
          Cardinality({S \in {"fixed", "outstanding", "to_reissue"} :
              \/ S = "fixed" /\ i \in fixed_ids
              \/ S = "outstanding" /\ i \in outstanding
              \/ S = "to_reissue" /\ i \in to_reissue}) = 1
    /\ (fixed_ids \cup outstanding \cup to_reissue) \subseteq 0 .. next_new - 1
    /\ issue(Alloc).result \notin outstanding \cup fixed_ids
    /\ issue(rollback(Alloc)).result \notin
           rollback(Alloc).outstanding \cup fixed_ids
    /\ \A i \in 0 .. rollback(Alloc).next_new - 1 :
          (i \in rollback(Alloc).to_reissue) # (i \in fixed_ids)

\* after a rollback one id is fixed, one outstanding again and one still
\* waits to be reissued
C40_Witness ==
    /\ rolled_back
    /\ next_new = 3
    /\ Cardinality(fixed_ids) = 1
    /\ Cardinality(outstanding) = 1
    /\ Cardinality(to_reissue) = 1

-----------------------------------------------------------------------------
(* board_size, the board and the history base *)

\* C37: in every reachable state board_size is one of the acceptable sizes
\* and the board and the history base both have board_size lines.
C37_BoardSizeAgreesWithBoards ==
    /\ board_size \in AcceptableSizes
    /\ board.side = board_size
    /\ history_base.side = board_size

-----------------------------------------------------------------------------
(* Passes and the ko ban *)

\* what a move generator answers when it passes
PassResults == {g \in AnyGenResults(board_size) : g.pass_move /\ ~g.resign}

\* C36: after a pass has been appended to move_history by play or by
\* genmove (or genmove_claim without a claim), simple_ko_point is none and
\* a genmove for either colour is given ko_point none.
C36_NoKoBanAfterPass ==
    \A colour \in Colours :
        LET after_pass ==
                {handle_play(Cur, colour, None).st}
                \cup {handle_genmove(Cur, colour, g).st : g \in PassResults}
                \cup {handle_genmove_claim(Cur, colour, g).st :
                          g \in {h \in PassResults : ~h.claim}}
        IN  \A t \in after_pass :
                /\ t.move_history # <<>>
                /\ t.move_history[Len(t.move_history)].coords = None
                /\ t.simple_ko_point = None
                /\ \A c \in Colours : KoPointsGiven(t, c) = {None}

-----------------------------------------------------------------------------
(* Handicap commands and stones already on the board *)

\* the engine after a successful handicap command that placed `placed`:
\* the board was empty before, and the history base holds black stones on
\* the placed points and nothing else
OnlyHandicapStones(s, t, placed) ==
    /\ BoardIsEmpty(s.board)
    /\ StonesOn(t.history_base) = {placed[i] : i \in 1 .. Len(placed)}
    /\ \A p \in StonesOn(t.history_base) : t.history_base.pts[p] = "b"

\* C38: fixed_handicap, set_free_handicap and place_free_handicap succeed
\* only on an empty board, and after a success history_base holds black
\* stones only, all of them placed by the command.
C38_HandicapOnlyOnEmptyBoard ==
    /\ \A n \in FixedHandicapArgs :
          LET o == handle_fixed_handicap(Cur, n)
          IN  o.err = "ok" => OnlyHandicapStones(Cur, o.st, o.res.vertices)
    /\ \A args \in SetFreeArgs :
          LET o == handle_set_free_handicap(Cur, args)
          IN  o.err = "ok" => OnlyHandicapStones(Cur, o.st, args)
    /\ \A n \in 1 .. MaxHandicap :
          \A gen \in [1 .. n -> PlaceGenResults] :
              LET o == handle_place_free_handicap(Cur, n, gen)
              IN  o.err = "ok" =>
                      OnlyHandicapStones(Cur, o.st, o.res.vertices)

-----------------------------------------------------------------------------
(* The komi place_free_handicap shows the move generator *)

\* the komi of the call after one whose komi was prev and whose answer was g
KomiAfterAnswer(prev, g, size) ==
    IF g.pass_move THEN prev
    ELSE IF g.resign THEN 0
    ELSE IF prev + 5 < size * size - 2 THEN prev + 5 ELSE size * size - 2

\* C33: in place_free_handicap the generator's first call is given komi 0,
\* each later call 0 after a resignation, the previous komi after a pass
\* and min(previous + 5, size*size - 2) after a move, so every call's komi
\* lies in 0 .. size*size - 2; a generator call is made for every stone
\* asked for unless a move fails; the engine's komi is left as it was.
C33_PlaceFreeHandicapKomi ==
    \A n \in 1 .. MaxHandicap :
        \A gen \in [1 .. n -> WidePlaceGenResults(board_size)] :
            LET o == handle_place_free_handicap(Cur, n, gen)
                komis == place_free_handicap_komis(Cur, n, gen)
            IN  /\ o.st.komi = komi
                /\ Len(komis) <= n
                /\ o.err = "ok" =>
                       Len(komis) = IF n = board_size * board_size - 1
                                    THEN n - 1 ELSE n
                /\ komis # <<>> => komis[1] = 0
                /\ \A i \in 2 .. Len(komis) :
                       komis[i] = KomiAfterAnswer(komis[i - 1], gen[i - 1],
                                                  board_size)
                /\ \A i \in 1 .. Len(komis) :
                       komis[i] \in 0 .. board_size * board_size - 2

\* komi is 7 on the 3x3 board and place_free_handicap 3 has placed three
\* stones: its generator calls were given komi 0, 5 and 7
C33_Witness ==
    /\ board_size = 3
    /\ komi = 7
    /\ handicap = Some(3)
    /\ Cardinality(StonesOn(board)) = 3
    /\ board = history_base
    /\ \E p \in Points(3) :
          /\ board.pts[p] = "b"
          /\ place_free_handicap_komis(
                 [Cur EXCEPT !.board = Board(3)], 3,
                 [i \in 1 .. 3 |->
                     Generated(FALSE, FALSE,
                         Some((CHOOSE f \in [1 .. 3 -> StonesOn(board)] :
                                  \A j, k \in 1 .. 3 : j # k => f[j] # f[k])[i]),
                         FALSE, None, None)]) = <<0, 5, 7>>

-----------------------------------------------------------------------------
(* Corrupt history *)

\* C32: in no reachable state does undo fail with "corrupt history" or
\* loadsgf with "bad move in file and corrupt history".
C32_HistoryNeverCorrupt ==
    /\ handle_undo(Cur).err # "corrupt history"
    /\ \A file \in SgfFiles : \A k \in MoveNumbers :
          handle_loadsgf(Cur, file, k).err
              # "bad move in file and corrupt history"

-----------------------------------------------------------------------------
(* savesgf: the value of an extra property *)

\* one pass over the token from left to right: backslash-underscore
\* becomes a space, a doubled backslash one backslash
RECURSIVE UnescapedInOnePass(_)
UnescapedInOnePass(text) ==
    IF Len(text) < 2 THEN text
    ELSE IF SubSeq(text, 1, 2) = <<"\\", "_">>
    THEN <<" ">> \o UnescapedInOnePass(SubSeq(text, 3, Len(text)))
    ELSE IF SubSeq(text, 1, 2) = <<"\\", "\\">>
    THEN <<"\\">> \o UnescapedInOnePass(SubSeq(text, 3, Len(text)))
    ELSE <<Head(text)>> \o UnescapedInOnePass(Tail(text))

\* C35: the property value savesgf stores for a token KEY=value is the
\* result of one left-to-right unescaping pass over value.
C35_ValueUnescapedInOnePass ==
    (savesgf_arg # None /\ handle_savesgf(Cur, The(savesgf_arg)).err = "ok")
        => /\ saved_game # None
           /\ \A prop \in The(saved_game).root_properties :
                  prop[2] = UnescapedInOnePass(Split(The(savesgf_arg))[2])

-----------------------------------------------------------------------------
(* Group_scheduler *)

\* the games of group g that count as issued: fixed, or held since the
\* last rollback
GamesIssued(g) == Cardinality(group_fixed[g]) + Cardinality(group_held[g])

\* the groups that have not reached their limit
BelowLimit ==
    {g \in DOMAIN limits :
        limits[g] = None \/ GamesIssued(g) < The(limits[g])}

\* the game numbers of group g that were rolled back and not issued since
RolledBack(g) == (group_issued[g] \ group_fixed[g]) \ group_held[g]

-----------------------------------------------------------------------------
(* Tournament: choosing the next game *)

\* matchup m has started all its games
Complete(m) ==
    m.number_of_games # None /\ m.games_started >= The(m.number_of_games)

\* what find_match() returns is (None, None, None) exactly when every
\* matchup is complete, and otherwise a matchup that is not complete, with
\* the fewest games started and the lowest id among those with as few, and
\* black for p1 unless the matchup alternates and has started an odd
\* number of games
FindMatchChoosesFairly ==
    LET found == find_match(matchups)
        chosen == matchups[The(found[1])]
    IN  /\ (found = <<None, None, None>>) <=>
               \A i \in 1 .. Len(matchups) : Complete(matchups[i])
        /\ found[1] # None =>
              /\ ~Complete(chosen)
              /\ \A i \in 1 .. Len(matchups) :
                    ~Complete(matchups[i]) =>
                        \/ chosen.games_started < matchups[i].games_started
                        \/ /\ chosen.games_started
                                  = matchups[i].games_started
                           /\ chosen.id <= matchups[i].id
              /\ <<found[2], found[3]>> =
                    IF chosen.alternating /\ chosen.games_started % 2 = 1
                    THEN <<Some(chosen.p2), Some(chosen.p1)>>
                    ELSE <<Some(chosen.p1), Some(chosen.p2)>>
        /\ \A i \in 1 .. Len(matchups) : matchups[i].id = i - 1

\* C34 as stated: find_match chooses as above, and games_started never
\* exceeds number_of_games.
C34_FindMatch ==
    /\ FindMatchChoosesFairly
    /\ \A i \in 1 .. Len(matchups) :
          matchups[i].number_of_games # None =>
              matchups[i].games_started <= The(matchups[i].number_of_games)

\* C34, amended: find_match chooses as above, and games_started never
\* exceeds number_of_games where that is not negative; it stays 0 where
\* number_of_games is negative.
C34_FindMatchWithinGamesAskedFor ==
    /\ FindMatchChoosesFairly
    /\ \A i \in 1 .. Len(matchups) :
          matchups[i].number_of_games # None =>
              matchups[i].games_started
                  <= IF The(matchups[i].number_of_games) < 0 THEN 0
                     ELSE The(matchups[i].number_of_games)

\* the first matchup has started its only game and the second, which
\* alternates, one of its two: the next game is the second's, with p2 black
C34_Witness ==
    /\ Len(matchups) = 2
    /\ Complete(matchups[1])
    /\ matchups[1].games_started = 1
    /\ matchups[2].alternating
    /\ matchups[2].games_started = 1
    /\ matchups[2].number_of_games = Some(2)
    /\ find_match(matchups) = <<Some(2), Some("y"), Some("x")>>

\* C39: a get_game call that returns NoGameAvailable leaves the
\* tournament's state unchanged, and in every reachable state the ids
\* outstanding in game_id_allocator are the game ids of the jobs recorded
\* in outstanding_games.
C39_NoGameAvailableChangesNothing ==
    /\ (matchups # <<>> /\ get_game(Tourn).result = NoGameAvailable) =>
          get_game(Tourn).st = Tourn
    /\ game_id_allocator.outstanding
          = {int(k) : k \in DOMAIN outstanding_games}

=============================================================================
